---- MODULE Spec2Model ----
(***************************************************************************)
(* Operation log of the jj version-control tool: the operation store, the  *)
(* operation Head Set, the workspace's recorded operation id, and the      *)
(* commands of cli/src/commands/operation.rs (undo, restore, abandon).     *)
(***************************************************************************)
EXTENDS Integers, Sequences, FiniteSets, TLC

VARIABLES
    op_store,   \* the operation store: op_store[id] is the Operation with that id
    op_heads,   \* the operation Head Set: a set of OperationIds
    wc_op_id,   \* the operation id recorded in the workspace's working copy
    pc,         \* position of the jj process: "idle" (no command runs),
                \* "update_op_heads" (abandon, before its Head Set update), "done"
    cmd,        \* the command that runs or has just ended
    abandon,    \* locals of the abandon command (range, current head, statistics)
    tx,         \* locals of a command that runs a transaction (arguments, base
                \* operation, resulting operation)
    status,     \* what the command reported
    commit_store,   \* the Object Store: commit_store[id] is the Commit with that id
    op_diff,    \* what jj op diff printed last
    edited      \* what the description utilities last read and returned

vars == <<op_store, op_heads, wc_op_id, pc, cmd, abandon, tx, status,
          commit_store, op_diff, edited>>

----------------------------------------------------------------------------
(* Bounds of the model *)

\* operations the store may hold
MaxOps == 6
\* commit ids a View may name: 1..NumCommits
NumCommits == 1

CommitIds == 1..NumCommits
\* heads the Head Set may hold
MaxHeads == 2

----------------------------------------------------------------------------
(* RefTarget and View (spec section 3) *)

Absent == [added |-> {}, removed |-> {}]
Normal(c) == [added |-> {c}, removed |-> {}]

\* the View of the root operation
EmptyView ==
    [head_ids       |-> {},
     local_branches |-> Absent,
     tags           |-> Absent,
     remote_views   |-> Absent,
     git_refs       |-> Absent,
     git_head       |-> Absent,
     wc_commit_ids  |-> Absent]

UndoWhatToRestore == {"Repo", "RemoteTracking"}
DEFAULT_UNDO_WHAT == {"Repo", "RemoteTracking"}

\* faulty variants of view_with_desired_portions_restored: the working-copy
\* commits follow the remote-tracking selection; the refs of the colocated
\* repository follow the restored View
view_with_wc_from_remote_source(view_being_restored, current_view, what) ==
    LET repo_source   == IF "Repo" \in what THEN view_being_restored ELSE current_view
        remote_source == IF "RemoteTracking" \in what THEN view_being_restored
                         ELSE current_view
    IN  [head_ids       |-> repo_source.head_ids,
         local_branches |-> repo_source.local_branches,
         tags           |-> repo_source.tags,
         remote_views   |-> remote_source.remote_views,
         git_refs       |-> current_view.git_refs,
         git_head       |-> current_view.git_head,
         wc_commit_ids  |-> remote_source.wc_commit_ids]

view_with_git_refs_restored(view_being_restored, current_view, what) ==
    LET repo_source   == IF "Repo" \in what THEN view_being_restored ELSE current_view
        remote_source == IF "RemoteTracking" \in what THEN view_being_restored
                         ELSE current_view
    IN  [head_ids       |-> repo_source.head_ids,
         local_branches |-> repo_source.local_branches,
         tags           |-> repo_source.tags,
         remote_views   |-> remote_source.remote_views,
         git_refs       |-> remote_source.git_refs,
         git_head       |-> remote_source.git_head,
         wc_commit_ids  |-> repo_source.wc_commit_ids]

view_with_desired_portions_restored(view_being_restored, current_view, what) ==
    LET repo_source   == IF "Repo" \in what THEN view_being_restored ELSE current_view
        remote_source == IF "RemoteTracking" \in what THEN view_being_restored
                         ELSE current_view
    IN  [head_ids       |-> repo_source.head_ids,
         local_branches |-> repo_source.local_branches,
         tags           |-> repo_source.tags,
         remote_views   |-> remote_source.remote_views,
         git_refs       |-> current_view.git_refs,
         git_head       |-> current_view.git_head,
         wc_commit_ids  |-> repo_source.wc_commit_ids]

----------------------------------------------------------------------------
(* The operation store *)

RootOpId == 1

Range(seq) == {seq[i] : i \in DOMAIN seq}

Min(S) == CHOOSE x \in S : \A y \in S : x <= y
Max(S) == CHOOSE x \in S : \A y \in S : x >= y

\* content addressing: writing data the store already holds returns its id
write_operation(store, data) ==
    IF \E i \in DOMAIN store : store[i] = data
    THEN [store |-> store, id |-> CHOOSE i \in DOMAIN store : store[i] = data]
    ELSE [store |-> Append(store, data), id |-> Len(store) + 1]

\* op_walk::walk_ancestors: the operations reachable from heads, heads included
RECURSIVE walk_ancestors(_, _)
walk_ancestors(store, heads) ==
    LET next == heads \cup UNION {Range(store[i].parents) : i \in heads}
    IN  IF next = heads THEN heads ELSE walk_ancestors(store, next)

Parents(store, id) == Range(store[id].parents)

\* the ids of s in ascending order
RECURSIVE SortedSeq(_)
SortedSeq(S) == IF S = {} THEN << >> ELSE <<Min(S)>> \o SortedSeq(S \ {Min(S)})

\* s without the repetitions of an element: first occurrences, in order
Dedup(s) ==
    LET keep == {i \in DOMAIN s : \A j \in 1..(i - 1) : s[j] # s[i]}
        ks   == SortedSeq(keep)
    IN  [k \in 1..Len(ks) |-> s[ks[k]]]

----------------------------------------------------------------------------
(* The View Merge Engine (spec section 4.1) *)

\* faulty variants of merge_ref_targets: a move of one side alone is a conflict;
\* two sides that moved to the same target are a conflict; of two sides that
\* moved, the left one wins
merge_ref_targets_one_move_conflicts(left, base, right) ==
    IF left = right THEN left
    ELSE [added   |-> left.added \cup right.added,
          removed |-> left.removed \cup right.removed \cup base.added]

merge_ref_targets_same_move_conflicts(left, base, right) ==
    IF left = base THEN right
    ELSE IF right = base THEN left
    ELSE [added   |-> left.added \cup right.added,
          removed |-> left.removed \cup right.removed \cup base.added]

merge_ref_targets_left_wins(left, base, right) ==
    IF left = right THEN left
    ELSE IF left = base THEN right
    ELSE left

\* three-way merge of one RefTarget
merge_ref_targets(left, base, right) ==
    IF left = right THEN left
    ELSE IF left = base THEN right
    ELSE IF right = base THEN left
    ELSE [added   |-> left.added \cup right.added,
          removed |-> left.removed \cup right.removed \cup base.added]

\* three-way merge of the visible heads
merge_head_ids(left, base, right) ==
    (left \ (base \ right)) \cup (right \ base)

\* MutableRepo::merge: folds the change base -> other into the View self
merge_views(self, base, other) ==
    [head_ids       |-> merge_head_ids(self.head_ids, base.head_ids, other.head_ids),
     local_branches |-> merge_ref_targets(self.local_branches, base.local_branches,
                                          other.local_branches),
     tags           |-> merge_ref_targets(self.tags, base.tags, other.tags),
     remote_views   |-> merge_ref_targets(self.remote_views, base.remote_views,
                                          other.remote_views),
     git_refs       |-> merge_ref_targets(self.git_refs, base.git_refs, other.git_refs),
     git_head       |-> merge_ref_targets(self.git_head, base.git_head, other.git_head),
     wc_commit_ids  |-> merge_ref_targets(self.wc_commit_ids, base.wc_commit_ids,
                                          other.wc_commit_ids)]

----------------------------------------------------------------------------
(* The Operation DAG Walker (spec section 4.2) *)

\* faulty variant of unreachable_ops: the ancestors of new_root are not taken
\* out
unreachable_ops_whole_history(store, heads_to_abandon, new_root) ==
    walk_ancestors(store, heads_to_abandon)

\* step 1: (..heads_to_abandon] \ (..new_root]
unreachable_ops(store, heads_to_abandon, new_root) ==
    walk_ancestors(store, heads_to_abandon) \ walk_ancestors(store, {new_root})

\* step 2: the operations reachable from current_heads that have an unreachable
\* ancestor and are not unreachable themselves
descendant_ops(store, current_heads, unreachable) ==
    {o \in walk_ancestors(store, current_heads) \ unreachable :
        walk_ancestors(store, {o}) \cap unreachable # {}}

\* step 3, one operation: the original parents with every unreachable parent
\* replaced by new_root and every rewritten parent by its replacement
replace_parents(parents, unreachable, new_root, rewritten) ==
    Dedup([i \in DOMAIN parents |->
              IF parents[i] \in unreachable THEN new_root
              ELSE IF parents[i] \in DOMAIN rewritten THEN rewritten[parents[i]]
              ELSE parents[i]])

\* step 3: the descendants in topological order (an operation's id is larger
\* than its parents' ids), each written back with its new parents
RECURSIVE rewrite_descendants(_, _, _, _, _)
rewrite_descendants(store, todo, unreachable, new_root, rewritten) ==
    IF todo = {} THEN [store |-> store, rewritten |-> rewritten]
    ELSE LET old  == Min(todo)
             data == [store[old] EXCEPT
                        !.parents = replace_parents(store[old].parents, unreachable,
                                                    new_root, rewritten)]
             w    == write_operation(store, data)
         IN  rewrite_descendants(w.store, todo \ {old}, unreachable, new_root,
                                 rewritten @@ (old :> w.id))

reparent_range(store, heads_to_abandon, current_heads, new_root) ==
    LET unreachable == unreachable_ops(store, Range(heads_to_abandon), new_root)
        descendants == descendant_ops(store, Range(current_heads), unreachable)
        r == rewrite_descendants(store, descendants, unreachable, new_root, << >>)
    IN  [store             |-> r.store,
         rewritten         |-> r.rewritten,
         \* step 4
         new_head_ids      |-> [i \in DOMAIN current_heads |->
                                   IF current_heads[i] \in DOMAIN r.rewritten
                                   THEN r.rewritten[current_heads[i]]
                                   ELSE current_heads[i]],
         unreachable_count |-> Cardinality(unreachable),
         rewritten_count   |-> Cardinality(descendants)]

----------------------------------------------------------------------------
(* Transactions (spec section 4.3) and the Head Set (spec section 6) *)

\* OpHeadsStore::update_op_heads: new_id replaces the heads old_ids
update_op_heads(heads, old_ids, new_id) == (heads \ old_ids) \cup {new_id}

\* the record of a new operation; the time stamp is unique to the operation
new_operation(store, parents, view, description) ==
    [parents  |-> parents,
     view     |-> view,
     metadata |-> [time |-> Len(store) + 1, description |-> description]]

\* Transaction::finish on the base operation head_op: no net change of the View
\* writes nothing
finish(store, head_op, new_view, description) ==
    IF new_view = store[head_op].view
    THEN [status |-> "Nothing changed.", store |-> store, new_op_id |-> head_op]
    ELSE LET w == write_operation(store,
                      new_operation(store, <<head_op>>, new_view, description))
         IN  [status |-> "ok", store |-> w.store, new_op_id |-> w.id]

\* faulty variant of user_error: the failing command has already written an
\* operation
user_error_after_write(store, head_op, message) ==
    [status    |-> message,
     store     |-> Append(store, new_operation(store, <<head_op>>,
                                               store[head_op].view, message)),
     new_op_id |-> head_op]

\* a command that fails before it wrote anything
user_error(store, head_op, message) ==
    [status |-> message, store |-> store, new_op_id |-> head_op]

\* an operation string is the id of an operation; ids the store does not hold do
\* not resolve
EmptyOpStr == 0
OpStrs(store) == 1..(Len(store) + 1)
resolves(store, op_str) == op_str \in DOMAIN store

UserErrors ==
    {"Cannot undo repo initialization",
     "Cannot undo a merge operation",
     "Cannot abandon the root operation",
     "Cannot abandon a merge operation",
     "Cannot abandon the current operation",
     "--at-op is not respected",
     "No operation ID matching",
     "The \"@\" expression resolved to more than one operation"}

----------------------------------------------------------------------------
(* jj op undo, jj op restore *)

\* faulty variants of cmd_op_undo: an operation with several parents is undone
\* against its first parent; the two sides of the merge are exchanged
cmd_op_undo_first_parent(store, head_op, operation, what) ==
    IF ~resolves(store, operation)
    THEN user_error(store, head_op, "No operation ID matching")
    ELSE LET bad_op     == operation
             parent_ops == store[bad_op].parents
         IN  IF Len(parent_ops) = 0
             THEN user_error(store, head_op, "Cannot undo repo initialization")
             ELSE LET base_view == store[head_op].view
                      merged    == merge_views(base_view, store[bad_op].view,
                                               store[parent_ops[1]].view)
                      new_view  == view_with_desired_portions_restored(
                                       merged, base_view, what)
                  IN  finish(store, head_op, new_view, "undo operation")

\* faulty variant of cmd_op_undo: the undo of the head operation, when it is
\* the last one written, deletes it from the store
cmd_op_undo_by_deletion(store, head_op, operation, what) ==
    IF ~resolves(store, operation)
    THEN user_error(store, head_op, "No operation ID matching")
    ELSE LET bad_op     == operation
             parent_ops == store[bad_op].parents
         IN  IF Len(parent_ops) = 0
             THEN user_error(store, head_op, "Cannot undo repo initialization")
             ELSE IF Len(parent_ops) > 1
             THEN user_error(store, head_op, "Cannot undo a merge operation")
             ELSE IF bad_op = head_op /\ bad_op = Len(store)
             THEN [status |-> "ok", store |-> SubSeq(store, 1, Len(store) - 1),
                   new_op_id |-> parent_ops[1]]
             ELSE LET base_view == store[head_op].view
                      merged    == merge_views(base_view, store[bad_op].view,
                                               store[parent_ops[1]].view)
                      new_view  == view_with_desired_portions_restored(
                                       merged, base_view, what)
                  IN  finish(store, head_op, new_view, "undo operation")

cmd_op_undo_sides_exchanged(store, head_op, operation, what) ==
    IF ~resolves(store, operation)
    THEN user_error(store, head_op, "No operation ID matching")
    ELSE LET bad_op     == operation
             parent_ops == store[bad_op].parents
         IN  IF Len(parent_ops) = 0
             THEN user_error(store, head_op, "Cannot undo repo initialization")
             ELSE IF Len(parent_ops) > 1
             THEN user_error(store, head_op, "Cannot undo a merge operation")
             ELSE LET base_view == store[head_op].view
                      merged    == merge_views(base_view, store[parent_ops[1]].view,
                                               store[bad_op].view)
                      new_view  == view_with_desired_portions_restored(
                                       merged, base_view, what)
                  IN  finish(store, head_op, new_view, "undo operation")

cmd_op_undo(store, head_op, operation, what) ==
    IF ~resolves(store, operation)
    THEN user_error(store, head_op, "No operation ID matching")
    ELSE LET bad_op     == operation
             parent_ops == store[bad_op].parents
         IN  IF Len(parent_ops) = 0
             THEN user_error(store, head_op, "Cannot undo repo initialization")
             ELSE IF Len(parent_ops) > 1
             THEN user_error(store, head_op, "Cannot undo a merge operation")
             ELSE LET base_view == store[head_op].view
                      merged    == merge_views(base_view, store[bad_op].view,
                                               store[parent_ops[1]].view)
                      new_view  == view_with_desired_portions_restored(
                                       merged, base_view, what)
                  IN  finish(store, head_op, new_view, "undo operation")

\* faulty variant of cmd_op_restore: the target View is merged into the current
\* View, with the View of the root operation as the base
cmd_op_restore_merging(store, head_op, operation, what) ==
    IF ~resolves(store, operation)
    THEN user_error(store, head_op, "No operation ID matching")
    ELSE LET target_op == operation
             merged    == merge_views(store[head_op].view, store[RootOpId].view,
                                      store[target_op].view)
             new_view  == view_with_desired_portions_restored(
                              merged, store[head_op].view, what)
         IN  finish(store, head_op, new_view, "restore to operation")

cmd_op_restore(store, head_op, operation, what) ==
    IF ~resolves(store, operation)
    THEN user_error(store, head_op, "No operation ID matching")
    ELSE LET target_op == operation
             new_view  == view_with_desired_portions_restored(
                              store[target_op].view, store[head_op].view, what)
         IN  finish(store, head_op, new_view, "restore to operation")

----------------------------------------------------------------------------
(* jj op abandon *)

\* faulty variant of resolve_bare_op: any operation with a parent is taken,
\* with its first parent as the root of the range
resolve_bare_op_first_parent(store, op) ==
    LET parent_ops == store[op].parents
    IN  IF Len(parent_ops) = 0
        THEN [error |-> "Cannot abandon the root operation",
              root_op |-> 0, head_op |-> 0]
        ELSE [error |-> "", root_op |-> parent_ops[1], head_op |-> op]

\* the range of a bare operation: its one parent .. the operation
resolve_bare_op(store, op) ==
    LET parent_ops == store[op].parents
    IN  IF Len(parent_ops) = 0
        THEN [error |-> "Cannot abandon the root operation",
              root_op |-> 0, head_op |-> 0]
        ELSE IF Len(parent_ops) = 1
        THEN [error |-> "", root_op |-> parent_ops[1], head_op |-> op]
        ELSE [error |-> "Cannot abandon a merge operation",
              root_op |-> 0, head_op |-> 0]

\* faulty variant of resolve_abandon_range: the empty head part of a range
\* defaults to the root operation, as the empty root part does
resolve_abandon_range_head_default(store, current_head_op, operation) ==
    IF operation.range
    THEN IF \/ ~(operation.root_op_str = EmptyOpStr \/ resolves(store, operation.root_op_str))
            \/ ~(operation.head_op_str = EmptyOpStr \/ resolves(store, operation.head_op_str))
         THEN [error |-> "No operation ID matching", root_op |-> 0, head_op |-> 0]
         ELSE [error   |-> "",
               root_op |-> IF operation.root_op_str = EmptyOpStr THEN RootOpId
                           ELSE operation.root_op_str,
               head_op |-> IF operation.head_op_str = EmptyOpStr THEN RootOpId
                           ELSE operation.head_op_str]
    ELSE IF ~resolves(store, operation.head_op_str)
         THEN [error |-> "No operation ID matching", root_op |-> 0, head_op |-> 0]
         ELSE resolve_bare_op(store, operation.head_op_str)

\* the range root..head named by the argument: "root..head" with either part
\* possibly empty, or the bare id of an operation with one parent
resolve_abandon_range(store, current_head_op, operation) ==
    IF operation.range
    THEN IF \/ ~(operation.root_op_str = EmptyOpStr \/ resolves(store, operation.root_op_str))
            \/ ~(operation.head_op_str = EmptyOpStr \/ resolves(store, operation.head_op_str))
         THEN [error |-> "No operation ID matching", root_op |-> 0, head_op |-> 0]
         ELSE [error   |-> "",
               root_op |-> IF operation.root_op_str = EmptyOpStr THEN RootOpId
                           ELSE operation.root_op_str,
               head_op |-> IF operation.head_op_str = EmptyOpStr THEN current_head_op
                           ELSE operation.head_op_str]
    ELSE IF ~resolves(store, operation.head_op_str)
         THEN [error |-> "No operation ID matching", root_op |-> 0, head_op |-> 0]
         ELSE resolve_bare_op(store, operation.head_op_str)

\* faulty variants of the call of reparent_range: the abandon head passed as a
\* second current head; the root operation passed as the new root; the root of
\* the range taken as the new head
abandon_reparent_two_heads(store, abandon_root_op, abandon_head_op, current_head_op) ==
    reparent_range(store, <<abandon_head_op>>, <<current_head_op, abandon_head_op>>,
                   abandon_root_op)

abandon_reparent_to_root(store, abandon_root_op, abandon_head_op, current_head_op) ==
    reparent_range(store, <<abandon_head_op>>, <<current_head_op>>, RootOpId)

abandon_reparent_head_is_root(store, abandon_root_op, abandon_head_op, current_head_op) ==
    [reparent_range(store, <<abandon_head_op>>, <<current_head_op>>, abandon_root_op)
        EXCEPT !.new_head_ids = <<abandon_root_op>>]

\* the call of op_walk::reparent_range
abandon_reparent(store, abandon_root_op, abandon_head_op, current_head_op) ==
    reparent_range(store, <<abandon_head_op>>, <<current_head_op>>, abandon_root_op)

NoOperation == [range |-> FALSE, root_op_str |-> EmptyOpStr, head_op_str |-> EmptyOpStr]

AbandonNone ==
    [operation |-> NoOperation, current_head_op |-> 0, abandon_root_op |-> 0, abandon_head_op |-> 0,
     new_head_ids |-> << >>, unreachable_count |-> 0, rewritten_count |-> 0,
     rewritten |-> << >>, concurrent |-> FALSE,
     ignore_working_copy |-> FALSE, warning |-> FALSE]

abandon_failed(store, operation, message) ==
    [status |-> message, store |-> store,
     locals |-> [AbandonNone EXCEPT !.operation = operation]]

\* the range, the checks and the reparenting at the current head
abandon_at_head(store, heads, operation) ==
    IF Cardinality(heads) # 1
    THEN abandon_failed(store, operation,
                        "The \"@\" expression resolved to more than one operation")
    ELSE LET current_head_op == CHOOSE h \in heads : TRUE
             rng == resolve_abandon_range(store, current_head_op, operation)
         IN  IF rng.error # "" THEN abandon_failed(store, operation, rng.error)
             ELSE IF rng.head_op = current_head_op
             THEN abandon_failed(store, operation,
                                 "Cannot abandon the current operation")
             ELSE LET stats  == abandon_reparent(store, rng.root_op, rng.head_op,
                                                 current_head_op)
                      locals == [AbandonNone EXCEPT
                                    !.operation         = operation,
                                    !.current_head_op   = current_head_op,
                                    !.abandon_root_op   = rng.root_op,
                                    !.abandon_head_op   = rng.head_op,
                                    !.new_head_ids      = stats.new_head_ids,
                                    !.unreachable_count = stats.unreachable_count,
                                    !.rewritten_count   = stats.rewritten_count,
                                    !.rewritten         = stats.rewritten]
                  IN  IF Len(stats.new_head_ids) # 1
                      THEN [status |-> "panic", store |-> stats.store, locals |-> locals]
                      ELSE IF current_head_op = stats.new_head_ids[1]
                      THEN [status |-> "Nothing changed.", store |-> stats.store,
                            locals |-> locals]
                      ELSE [status |-> "Abandoned", store |-> stats.store,
                            locals |-> locals]

\* cmd_op_abandon up to the report of the statistics
cmd_op_abandon(store, heads, at_operation, operation) ==
    IF at_operation # "@"
    THEN abandon_failed(store, operation, "--at-op is not respected")
    ELSE abandon_at_head(store, heads, operation)

----------------------------------------------------------------------------
(* Commits and the Object Store (spec section 3) *)

\* commits the Object Store may hold
MaxCommits == 4
\* change ids the commits may carry: 1..MaxChanges
MaxChanges == 2

ChangeIds == 1..MaxChanges

\* the commits the Views of the operation log name: one commit of its own change
\* per commit id, without parents
InitialCommits ==
    [c \in CommitIds |-> [change_id |-> c, parent_ids |-> << >>, description |-> << >>]]

\* the commits of the merge scenarios: c1 <- c2, and c3 beside them
NumMergeCommits == 3

MergeCommits ==
    [c \in 1..NumMergeCommits |->
        [change_id |-> c, parent_ids |-> IF c = 2 THEN <<1>> ELSE << >>,
         description |-> << >>]]

\* the edits of the merge scenarios: the local refs and heads move to a commit
\* or are deleted (0), or the remote-tracking refs are fetched
MergeEdits == ({"local"} \X (0..NumMergeCommits)) \cup ({"fetch"} \X {1})

Reverse(s) == [i \in 1..Len(s) |-> s[Len(s) + 1 - i]]

\* the commits reachable from heads over the parent edges, heads included
RECURSIVE commit_ancestors(_, _)
commit_ancestors(commits, heads) ==
    LET next == heads \cup UNION {Range(commits[c].parent_ids) : c \in heads}
    IN  IF next = heads THEN heads ELSE commit_ancestors(commits, next)

\* revset::walk_revs: the ancestors of wanted that are not ancestors of
\* unwanted, the newest first
walk_revs(commits, wanted, unwanted) ==
    Reverse(SortedSeq(commit_ancestors(commits, wanted)
                          \ commit_ancestors(commits, unwanted)))

----------------------------------------------------------------------------
(* Merging operations *)

\* Transaction::merge_operation: merges the View of other_op into view, with the
\* View of the closest common ancestor of the merged operations as the base
merge_operation(store, parent_ops, view, other_op) ==
    LET common   == walk_ancestors(store, Range(parent_ops))
                        \cap walk_ancestors(store, {other_op})
        ancestor == Max(common)
    IN  merge_views(view, store[ancestor].view, store[other_op].view)

\* the heads that are not ancestors of another head
leaves(commits, head_ids) ==
    {h \in head_ids : h \notin commit_ancestors(commits, head_ids \ {h})}

\* MutableRepo::rebase_descendants: the visible heads become the leaves of the
\* commit graph; a head that another head descends from is superseded
rebase_descendants(view) ==
    [view EXCEPT !.head_ids = leaves(commit_store, view.head_ids)]

\* the loop of merge_operations: each operation is merged into the running
\* View and the descendants are rebased before the next one is merged
RECURSIVE merge_each(_, _, _, _)
merge_each(store, parent_ops, view, operations) ==
    IF operations = << >> THEN view
    ELSE merge_each(store, Append(parent_ops, Head(operations)),
                    rebase_descendants(
                        merge_operation(store, parent_ops, view, Head(operations))),
                    Tail(operations))

\* faulty variant of merge_each: no descendant is rebased after a merge
RECURSIVE merge_each_without_rebase(_, _, _, _)
merge_each_without_rebase(store, parent_ops, view, operations) ==
    IF operations = << >> THEN view
    ELSE merge_each_without_rebase(store, Append(parent_ops, Head(operations)),
                    merge_operation(store, parent_ops, view, Head(operations)),
                    Tail(operations))

\* faulty variant of merge_operations: the merge steps are not followed by the
\* rebase of the descendants
merge_operations_without_rebase(store, operations) ==
    IF Len(operations) = 0
    THEN [store |-> store, none |-> TRUE, op_id |-> 0]
    ELSE LET base_op == Head(operations)
         IN  IF Len(operations) > 1
             THEN LET view == merge_each_without_rebase(store, <<base_op>>,
                                  store[base_op].view, Tail(operations))
                      w    == write_operation(store,
                                  new_operation(store, operations, view, "merge operations"))
                  IN  [store |-> w.store, none |-> FALSE, op_id |-> w.id]
             ELSE [store |-> store, none |-> FALSE, op_id |-> base_op]

\* faulty variant of merge_operations: the first operation is returned, the
\* others are not merged into it
merge_operations_first_only(store, operations) ==
    IF Len(operations) = 0
    THEN [store |-> store, none |-> TRUE, op_id |-> 0]
    ELSE [store |-> store, none |-> FALSE, op_id |-> Head(operations)]

\* merge_operations: none for no operation, the operation itself for one, and
\* else a new operation that merges the others into the first, one by one
merge_operations(store, operations) ==
    IF Len(operations) = 0
    THEN [store |-> store, none |-> TRUE, op_id |-> 0]
    ELSE LET base_op == Head(operations)
         IN  IF Len(operations) > 1
             THEN LET view == merge_each(store, <<base_op>>, store[base_op].view,
                                         Tail(operations))
                      w    == write_operation(store,
                                  new_operation(store, operations, view, "merge operations"))
                  IN  [store |-> w.store, none |-> FALSE, op_id |-> w.id]
             ELSE [store |-> store, none |-> FALSE, op_id |-> base_op]

----------------------------------------------------------------------------
(* The Change Diff Engine (spec section 4.5) *)

\* faulty variant of compute_operation_commits_diff: every commit visible at
\* to_view is taken as added
compute_operation_commits_diff_all_visible(commits, from_view, to_view) ==
    LET added == walk_revs(commits, to_view.head_ids, {})
        keys  == Dedup([i \in DOMAIN added |-> commits[added[i]].change_id])
    IN  [i \in DOMAIN keys |->
            [change_id       |-> keys[i],
             added_commits   |-> SelectSeq(added,
                                     LAMBDA c : commits[c].change_id = keys[i]),
             removed_commits |-> << >>]]

\* compute_operation_commits_diff: the IndexMap from ChangeId to ModifiedChange,
\* as the sequence of its entries in insertion order
compute_operation_commits_diff(commits, from_view, to_view) ==
    LET from_heads == from_view.head_ids
        to_heads   == to_view.head_ids
        added      == walk_revs(commits, to_heads, from_heads)
        removed    == walk_revs(commits, from_heads, to_heads)
        walked     == added \o removed
        keys       == Dedup([i \in DOMAIN walked |-> commits[walked[i]].change_id])
    IN  [i \in DOMAIN keys |->
            [change_id       |-> keys[i],
             added_commits   |-> SelectSeq(added,
                                     LAMBDA c : commits[c].change_id = keys[i]),
             removed_commits |-> SelectSeq(removed,
                                     LAMBDA c : commits[c].change_id = keys[i])]]

\* the commits of one entry of the diff
CommitsOf(modified_change) ==
    Range(modified_change.added_commits) \cup Range(modified_change.removed_commits)

\* commit_id_change_id_map of show_op_diff: the index CommitId -> ChangeId of
\* the diff's own entries
commit_id_change_id_map(changes) ==
    [c \in UNION {CommitsOf(changes[i]) : i \in DOMAIN changes} |->
        changes[CHOOSE i \in DOMAIN changes : c \in CommitsOf(changes[i])].change_id]

\* the parent ids of the commits of a list, all of them, in order
RECURSIVE flat_parent_ids(_, _)
flat_parent_ids(commits, commit_ids) ==
    IF commit_ids = << >> THEN << >>
    ELSE commits[Head(commit_ids)].parent_ids
             \o flat_parent_ids(commits, Tail(commit_ids))

\* faulty variant of get_parent_changes: only the first-listed parent of each
\* commit is taken
get_parent_changes_first_parents(commits, modified_change, change_id_map) ==
    LET source  == IF modified_change.added_commits # << >>
                   THEN modified_change.added_commits
                   ELSE modified_change.removed_commits
        with    == SelectSeq(source, LAMBDA c : commits[c].parent_ids # << >>)
        firsts  == [i \in DOMAIN with |-> commits[with[i]].parent_ids[1]]
        in_diff == SelectSeq(firsts, LAMBDA parent_id : parent_id \in DOMAIN change_id_map)
    IN  Dedup([i \in DOMAIN in_diff |-> change_id_map[in_diff[i]]])

\* get_parent_changes: the changes of the parents of the added commits, or of
\* the removed commits when no commit was added
get_parent_changes(commits, modified_change, change_id_map) ==
    LET source  == IF modified_change.added_commits # << >>
                   THEN modified_change.added_commits
                   ELSE modified_change.removed_commits
        in_diff == SelectSeq(flat_parent_ids(commits, source),
                             LAMBDA parent_id : parent_id \in DOMAIN change_id_map)
    IN  Dedup([i \in DOMAIN in_diff |-> change_id_map[in_diff[i]]])

\* change_parents of show_op_diff: ChangeId -> the ChangeIds of its parents
change_parents(commits, changes) ==
    LET keys == {changes[i].change_id : i \in DOMAIN changes}
    IN  [k \in keys |->
            get_parent_changes(commits,
                changes[CHOOSE i \in DOMAIN changes : changes[i].change_id = k],
                commit_id_change_id_map(changes))]

\* the changes reachable from a set of changes over the derived parent relation
RECURSIVE reachable_changes(_, _)
reachable_changes(parents, from) ==
    LET next == from \cup UNION {Range(parents[k]) : k \in from}
    IN  IF next = from THEN from ELSE reachable_changes(parents, next)

has_cycle(parents) ==
    \E k \in DOMAIN parents : k \in reachable_changes(parents, Range(parents[k]))

\* depth-first walk that lists a node after its neighbours
RECURSIVE topo_visit(_, _, _)
RECURSIVE topo_visit_all(_, _, _)
topo_visit(parents, node, visited) ==
    IF node \in Range(visited) THEN visited
    ELSE Append(topo_visit_all(parents, parents[node], visited), node)

topo_visit_all(parents, nodes, visited) ==
    IF nodes = << >> THEN visited
    ELSE topo_visit_all(parents, Tail(nodes), topo_visit(parents, Head(nodes), visited))

\* dag_walk::topo_order_reverse: the nodes, each before its neighbours; a graph
\* with a cycle has no such order and the walk panics
topo_order_reverse(start, parents) ==
    IF has_cycle(parents)
    THEN [panic |-> TRUE, order |-> << >>]
    ELSE [panic |-> FALSE, order |-> Reverse(topo_visit_all(parents, start, << >>))]

\* TopoGroupedGraphIterator: the nodes of order regrouped so that a node is
\* followed by its parent where the order of the graph allows it; a node is
\* still emitted after its children
RECURSIVE topo_grouped(_, _, _)
topo_grouped(order, parents, emitted) ==
    LET rest     == SelectSeq(order, LAMBDA k : k \notin Range(emitted))
        ready(k) == /\ k \in Range(rest)
                    /\ \A j \in Range(rest) : k \notin Range(parents[j])
        chained  == {i \in DOMAIN emitted :
                        \E k \in Range(parents[emitted[i]]) : ready(k)}
        follow   == SelectSeq(parents[emitted[Max(chained)]], ready)
        fresh    == SelectSeq(rest, ready)
    IN  IF rest = << >> THEN emitted
        ELSE topo_grouped(order, parents,
                 Append(emitted, IF chained # {} THEN follow[1] ELSE fresh[1]))

\* refs::diff_named_ref_targets: the names whose targets differ, each with the
\* two targets (the Views of the model hold one name per kind of ref)
diff_named_ref_targets(from_refs, to_refs) ==
    IF from_refs = to_refs THEN << >>
    ELSE <<[from_target |-> from_refs, to_target |-> to_refs]>>

\* nothing was printed
DiffNone ==
    [panic |-> FALSE, changes |-> << >>, parents |-> << >>, emitted |-> << >>,
     changed_local_branches |-> << >>, changed_tags |-> << >>,
     changed_remote_branches |-> << >>]

\* what show_op_diff prints: the modified changes in the order of the graph
\* iterator, and the changed refs
show_op_diff_output(commits, from_view, to_view) ==
    LET changes == compute_operation_commits_diff(commits, from_view, to_view)
        parents == change_parents(commits, changes)
        keys    == [i \in DOMAIN changes |-> changes[i].change_id]
        ordered_changes == topo_order_reverse(keys, parents)
    IN  [panic   |-> ordered_changes.panic,
         changes |-> changes,
         parents |-> parents,
         emitted |-> topo_grouped(ordered_changes.order, parents, << >>),
         changed_local_branches  |-> IF ordered_changes.panic THEN << >>
             ELSE diff_named_ref_targets(from_view.local_branches, to_view.local_branches),
         changed_tags            |-> IF ordered_changes.panic THEN << >>
             ELSE diff_named_ref_targets(from_view.tags, to_view.tags),
         changed_remote_branches |-> IF ordered_changes.panic THEN << >>
             ELSE diff_named_ref_targets(from_view.remote_views, to_view.remote_views)]

----------------------------------------------------------------------------
(* jj op diff *)

\* start_transaction: the transaction holds a working copy of the base View;
\* nothing is written before the transaction is finished
start_transaction(store, base_op) ==
    [base_op |-> base_op, view |-> store[base_op].view]

\* faulty variant of show_op_diff: the transaction is written to the store
show_op_diff_written(store, from_op, to_op) ==
    LET diff_tx == start_transaction(store, to_op)
    IN  [status |-> "ok",
         store  |-> write_operation(store,
                        new_operation(store, <<to_op>>, diff_tx.view, "diff")).store]

\* show_op_diff: the transaction it starts at to_op is dropped at its end
show_op_diff(store, from_op, to_op) ==
    LET diff_tx == start_transaction(store, to_op)
    IN  [status |-> "ok", store |-> store]

\* the arguments of jj op diff: --from and --to, or --op, each possibly absent
\* (EmptyOpStr); an absent operation is the head operation
cmd_op_diff(store, head_op, from, to, operation) ==
    LET or_head(op_str) == IF op_str = EmptyOpStr THEN head_op ELSE op_str
    IN  IF from # EmptyOpStr \/ to # EmptyOpStr
        THEN IF ~resolves(store, or_head(from)) \/ ~resolves(store, or_head(to))
             THEN [status |-> "No operation ID matching", store |-> store,
                   from_op |-> 0, to_op |-> 0]
             ELSE [from_op |-> or_head(from), to_op |-> or_head(to)]
                      @@ show_op_diff(store, or_head(from), or_head(to))
        ELSE IF ~resolves(store, or_head(operation))
             THEN [status |-> "No operation ID matching", store |-> store,
                   from_op |-> 0, to_op |-> 0]
             ELSE LET to_op  == or_head(operation)
                      merged == merge_operations(store, store[to_op].parents)
                  IN  IF merged.none
                      THEN [status |-> "Cannot diff operation with no parents",
                            store |-> merged.store, from_op |-> 0, to_op |-> to_op]
                      ELSE [from_op |-> merged.op_id, to_op |-> to_op]
                               @@ show_op_diff(merged.store, merged.op_id, to_op)

\* jj op show of an operation, "@" (EmptyOpStr) where none is named: the head
\* is looked up without loading the repo, so several heads are not merged and
\* "@" does not resolve then
cmd_op_show(store, heads, operation) ==
    LET failed(message) == [status |-> message, store |-> store, from_op |-> 0, to_op |-> 0]
    IN  IF operation = EmptyOpStr /\ Cardinality(heads) # 1
        THEN failed("The \"@\" expression resolved to more than one operation")
        ELSE LET op == IF operation = EmptyOpStr THEN CHOOSE h \in heads : TRUE
                       ELSE operation
             IN  IF ~resolves(store, op) THEN failed("No operation ID matching")
                 ELSE LET parent_op == merge_operations(store, store[op].parents)
                      IN  IF parent_op.none
                          THEN [status |-> "Cannot show the root operation",
                                store |-> parent_op.store, from_op |-> 0, to_op |-> op]
                          ELSE [from_op |-> parent_op.op_id, to_op |-> op]
                                   @@ show_op_diff(parent_op.store, parent_op.op_id, op)

----------------------------------------------------------------------------
(* Descriptions (description_util.rs) and jj describe *)

\* the longest text a user enters
MaxLen == 3

\* a text is a sequence of characters: a letter, line feed, carriage return,
\* and the prefix "JJ: " of a comment line taken as one character
Chars == {"a", "LF", "CR", "JJ: "}

Texts == UNION {[1..n -> Chars] : n \in 0..MaxLen}

\* str::split_inclusive('\n'): the lines of a text with their line feed
RECURSIVE split_inclusive(_)
split_inclusive(text) ==
    IF text = << >> THEN << >>
    ELSE IF \A i \in DOMAIN text : text[i] # "LF" THEN <<text>>
    ELSE LET i == Min({j \in DOMAIN text : text[j] = "LF"})
         IN  <<SubSeq(text, 1, i)>> \o split_inclusive(SubSeq(text, i + 1, Len(text)))

\* str::strip_suffix, the text itself where it does not end with the suffix
strip_suffix(text, suffix) ==
    IF text # << >> /\ text[Len(text)] = suffix
    THEN SubSeq(text, 1, Len(text) - 1)
    ELSE text

\* faulty variant of lines: the carriage return before a line feed is kept
lines_keeping_cr(text) ==
    LET split == split_inclusive(text)
    IN  [i \in DOMAIN split |-> strip_suffix(split[i], "LF")]

\* str::lines: the lines of a text without their terminators LF or CR LF; the
\* last line needs no terminator, and a carriage return that no line feed
\* follows stays
lines(text) ==
    LET split == split_inclusive(text)
    IN  [i \in DOMAIN split |->
            IF split[i][Len(split[i])] = "LF"
            THEN strip_suffix(strip_suffix(split[i], "LF"), "CR")
            ELSE split[i]]

\* Itertools::join("\n")
RECURSIVE join(_)
join(line_seq) ==
    IF line_seq = << >> THEN << >>
    ELSE IF Len(line_seq) = 1 THEN line_seq[1]
    ELSE line_seq[1] \o <<"LF">> \o join(Tail(line_seq))

\* str::trim_start_matches('\n')
RECURSIVE trim_start(_)
trim_start(text) ==
    IF text # << >> /\ text[1] = "LF" THEN trim_start(Tail(text)) ELSE text

\* str::trim_matches('\n')
RECURSIVE trim_matches(_)
trim_matches(text) ==
    IF text = << >> THEN text
    ELSE IF text[1] = "LF" THEN trim_matches(Tail(text))
    ELSE IF text[Len(text)] = "LF" THEN trim_matches(SubSeq(text, 1, Len(text) - 1))
    ELSE text

\* text_util::complete_newline: a text that is not empty ends with a newline
complete_newline(text) ==
    IF text # << >> /\ text[Len(text)] # "LF" THEN Append(text, "LF") ELSE text

\* faulty variant of cleanup_description: only the blank lines at the end are
\* removed
cleanup_description_trimming_end(description) ==
    LET kept == SelectSeq(lines(description),
                          LAMBDA line : line = << >> \/ line[1] # "JJ: ")
    IN  complete_newline(Reverse(trim_start(Reverse(join(kept)))))

\* cleanup_description: the comment lines are removed, the line endings are
\* normalized, the blank lines at both ends are removed
cleanup_description(description) ==
    LET kept == SelectSeq(lines(description),
                          LAMBDA line : line = << >> \/ line[1] # "JJ: ")
    IN  complete_newline(trim_matches(join(kept)))

\* faulty variant of join_message_paragraphs: the paragraphs are joined as they
\* are, and the description is completed at its end
join_message_paragraphs_completing_last(paragraphs) ==
    complete_newline(join(paragraphs))

\* join_message_paragraphs: every paragraph is completed with a newline, and a
\* newline separates two paragraphs
join_message_paragraphs(paragraphs) ==
    join([i \in DOMAIN paragraphs |-> complete_newline(paragraphs[i])])

\* str::strip_prefix("JJ: describe "): the line is a header
is_describe_header(line) ==
    Len(line) >= 2 /\ line[1] = "JJ: " /\ line[2] = "describe "

\* the fold of parse_bulk_edit_message: a header opens a section, another line
\* goes to the last section, or nowhere when no section is open
RECURSIVE fold_messages(_, _)
fold_messages(accum, line_seq) ==
    IF line_seq = << >> THEN accum
    ELSE LET line == Head(line_seq)
         IN  fold_messages(
                 IF is_describe_header(line)
                 THEN Append(accum, [commit_id_prefix |-> SubSeq(line, 3, Len(line)),
                                     description_lines |-> << >>])
                 ELSE IF accum # << >>
                 THEN [accum EXCEPT ![Len(accum)].description_lines = Append(@, line)]
                 ELSE accum,
                 Tail(line_seq))

\* nothing was parsed
ParsedNone ==
    [descriptions |-> << >>, missing |-> {}, duplicates |-> << >>,
     unexpected |-> << >>]

\* faulty variant of parse_section: the last section of a commit replaces the
\* earlier ones
parse_section_last_wins(message, commit_ids_map, result) ==
    LET commit_id_prefix == message.commit_id_prefix
        text == cleanup_description(join(message.description_lines))
    IN  IF commit_id_prefix \notin DOMAIN commit_ids_map
        THEN [result EXCEPT !.unexpected = Append(@, commit_id_prefix)]
        ELSE IF commit_ids_map[commit_id_prefix] \in DOMAIN result.descriptions
        THEN [result EXCEPT
                 !.duplicates = Append(@, commit_id_prefix),
                 !.descriptions = [c \in DOMAIN @ |->
                     IF c = commit_ids_map[commit_id_prefix] THEN text ELSE @[c]]]
        ELSE [result EXCEPT !.descriptions =
                 (commit_ids_map[commit_id_prefix] :> text) @@ @]

\* the body of the loop of parse_bulk_edit_message, for one section
parse_section(message, commit_ids_map, result) ==
    LET commit_id_prefix == message.commit_id_prefix
    IN  IF commit_id_prefix \notin DOMAIN commit_ids_map
        THEN [result EXCEPT !.unexpected = Append(@, commit_id_prefix)]
        ELSE IF commit_ids_map[commit_id_prefix] \in DOMAIN result.descriptions
        THEN [result EXCEPT !.duplicates = Append(@, commit_id_prefix)]
        ELSE [result EXCEPT !.descriptions =
                 (commit_ids_map[commit_id_prefix] :>
                     cleanup_description(join(message.description_lines))) @@ @]

\* the loop of parse_bulk_edit_message over the sections, in their order
RECURSIVE parse_sections(_, _, _)
parse_sections(messages, commit_ids_map, result) ==
    IF messages = << >> THEN result
    ELSE parse_sections(Tail(messages), commit_ids_map,
                        parse_section(Head(messages), commit_ids_map, result))

\* faulty variant of parse_bulk_edit_message: no commit is reported as missing
parse_bulk_edit_message_none_missing(message, commit_ids_map) ==
    parse_sections(fold_messages(<< >>, lines(message)), commit_ids_map, ParsedNone)

\* parse_bulk_edit_message: the descriptions of the sections of the edited
\* message; missing has no order, it comes from the keys of a hash map
parse_bulk_edit_message(message, commit_ids_map) ==
    LET parsed == parse_sections(fold_messages(<< >>, lines(message)),
                                 commit_ids_map, ParsedNone)
    IN  [parsed EXCEPT !.missing =
            {commit_id_prefix \in DOMAIN commit_ids_map :
                commit_ids_map[commit_id_prefix] \notin DOMAIN parsed.descriptions}]

\* no description utility ran
EditNone ==
    [kind |-> "none", text |-> << >>, paragraphs |-> << >>, description |-> << >>,
     commit_ids_map |-> << >>, parsed |-> ParsedNone]

\* the longest text the editor returns
MaxTextLen == 5

LongTexts == UNION {[1..n -> Chars] : n \in 0..MaxTextLen}

\* the paragraphs of -m: up to MaxParagraphs texts of up to MaxParagraphLen
\* letters and line feeds
MaxParagraphs == 3
MaxParagraphLen == 2

Paragraphs == UNION {[1..n -> {"a", "LF"}] : n \in 0..MaxParagraphLen}

ParagraphLists == UNION {[1..n -> Paragraphs] : n \in 0..MaxParagraphs}

\* short_commit_hash: the commit ids as the headers of a bulk message name them
CommitHashes == <<"c1", "c2", "c3">>

short_commit_hash(commit_id) == <<CommitHashes[commit_id]>>

\* commits_map of edit_multiple_descriptions, for the commits being edited
commits_map(commits) ==
    [commit_hash \in {short_commit_hash(c) : c \in commits} |->
        CHOOSE c \in commits : short_commit_hash(c) = commit_hash]

\* the sets of commits edited in one session: more than one commit
BulkCommits == {{1, 2}, {1, 2, 3}, {2, 3}}

\* the lines of an edited bulk message: a header of a commit, a line of text, an
\* empty line, a comment line
BulkLines ==
    {<<"JJ: ", "describe ", CommitHashes[c]>> : c \in DOMAIN CommitHashes}
        \cup {<<"a">>, << >>, <<"JJ: ", "a">>}

\* the longest bulk message, in lines
MaxBulkLines == 5

\* every line of a bulk message ends with a line feed
RECURSIVE terminated(_)
terminated(line_seq) ==
    IF line_seq = << >> THEN << >>
    ELSE Head(line_seq) \o <<"LF">> \o terminated(Tail(line_seq))

BulkMessages ==
    {terminated(line_seq) :
        line_seq \in UNION {[1..n -> BulkLines] : n \in 0..MaxBulkLines}}

\* the Object Store is content addressed: a commit it holds keeps its id
write_commit(commits, commit) ==
    IF \E c \in DOMAIN commits : commits[c] = commit
    THEN [commits |-> commits,
          id      |-> CHOOSE c \in DOMAIN commits : commits[c] = commit]
    ELSE [commits |-> Append(commits, commit), id |-> Len(commits) + 1]

\* the RefTarget after the commit old_id was rewritten as new_id
rewritten_target(target, old_id, new_id) ==
    [added   |-> {IF c = old_id THEN new_id ELSE c : c \in target.added},
     removed |-> {IF c = old_id THEN new_id ELSE c : c \in target.removed}]

\* the View after the commit old_id was rewritten as new_id: the heads and the
\* refs follow the rewrite
view_after_rewrite(view, old_id, new_id) ==
    [view EXCEPT
        !.head_ids       = {IF c = old_id THEN new_id ELSE c : c \in view.head_ids},
        !.local_branches = rewritten_target(view.local_branches, old_id, new_id),
        !.tags           = rewritten_target(view.tags, old_id, new_id),
        !.wc_commit_ids  = rewritten_target(view.wc_commit_ids, old_id, new_id)]

\* the description jj describe takes: the text of the editor goes through
\* cleanup_description, the message of -m through join_message_paragraphs
describe_description(edit, text) ==
    IF edit THEN cleanup_description(text) ELSE join_message_paragraphs(<<text>>)

\* faulty variant of cmd_describe: the commit is rewritten even when the
\* description is the one it has, under a new operation
cmd_describe_always_rewriting(store, head_op, commits, commit_id, edit, text) ==
    LET description == describe_description(edit, text)
        w == write_commit(commits,
                          [commits[commit_id] EXCEPT !.description = description])
        r == write_operation(store,
                 new_operation(store, <<head_op>>,
                               view_after_rewrite(store[head_op].view, commit_id, w.id),
                               "describe commit"))
    IN  [status |-> "ok", store |-> r.store, new_op_id |-> r.id, commits |-> w.commits]

\* jj describe of the commit commit_id: a description equal to the one the
\* commit has rewrites nothing, and the transaction finishes with no change
cmd_describe(store, head_op, commits, commit_id, edit, text) ==
    LET description == describe_description(edit, text)
    IN  IF description = commits[commit_id].description
        THEN LET r == finish(store, head_op, store[head_op].view, "describe commit")
             IN  [status |-> r.status, store |-> r.store, new_op_id |-> r.new_op_id,
                  commits |-> commits]
        ELSE LET w == write_commit(commits,
                          [commits[commit_id] EXCEPT !.description = description])
                 r == finish(store, head_op,
                             view_after_rewrite(store[head_op].view, commit_id, w.id),
                             "describe commit")
             IN  [status |-> r.status, store |-> r.store, new_op_id |-> r.new_op_id,
                  commits |-> w.commits]

----------------------------------------------------------------------------
(* The commands as steps of the system *)

\* the changes a mutating command makes to the View: "local" moves the visible
\* heads, the local refs and the working-copy commit (describe, new, branch set),
\* "fetch" moves the remote-tracking refs and the refs of the colocated repository
EditedFields == {"local", "fetch"}

RefTargetOf(c) == IF c = 0 THEN Absent ELSE Normal(c)

apply_edit(view, field, c) ==
    IF field = "local"
    THEN [view EXCEPT !.head_ids       = IF c = 0 THEN {} ELSE {c},
                      !.local_branches = RefTargetOf(c),
                      !.tags           = RefTargetOf(c),
                      !.wc_commit_ids  = RefTargetOf(c)]
    ELSE [view EXCEPT !.remote_views = RefTargetOf(c),
                      !.git_refs     = RefTargetOf(c),
                      !.git_head     = RefTargetOf(c)]

\* no transaction runs
TxNone == [operation |-> 0, what |-> {}, base_op |-> 0, from_op |-> 0, new_op_id |-> 0]

RootOperation ==
    [parents |-> << >>, view |-> EmptyView,
     metadata |-> [time |-> 1, description |-> "root"]]

Init ==
    /\ op_store = <<RootOperation>>
    /\ op_heads = {RootOpId}
    /\ wc_op_id = RootOpId
    /\ pc = "idle"
    /\ cmd = "none"
    /\ abandon = AbandonNone
    /\ tx = TxNone
    /\ status = "none"
    /\ commit_store = InitialCommits
    /\ op_diff = DiffNone
    /\ edited = EditNone

HeadOp == CHOOSE h \in op_heads : TRUE

\* the outcome of a command that ran a transaction at the current head
Finished(name, operation, what, r) ==
    /\ tx' = [operation |-> operation, what |-> what, base_op |-> HeadOp,
              from_op |-> 0, new_op_id |-> r.new_op_id]
    /\ op_store' = r.store
    /\ op_heads' = IF r.status = "ok"
                   THEN update_op_heads(op_heads, {HeadOp}, r.new_op_id)
                   ELSE op_heads
    /\ wc_op_id' = IF r.status = "ok" THEN r.new_op_id ELSE wc_op_id
    /\ status' = r.status
    /\ cmd' = name
    /\ abandon' = AbandonNone
    /\ pc' = "done"
    /\ UNCHANGED <<commit_store, op_diff, edited>>

\* a mutating command of this workspace (describe, branch set, git import, ...)
Commit(field, c) ==
    /\ pc = "idle"
    /\ Cardinality(op_heads) = 1
    /\ Finished("commit", 0, {}, finish(op_store, HeadOp,
                                 apply_edit(op_store[HeadOp].view, field, c), "commit"))

\* a command of another process, or one run with --at-op: its operation has the
\* parent base_op and becomes a head beside the other heads
ConcurrentCommit(base_op, field, c) ==
    LET r == finish(op_store, base_op, apply_edit(op_store[base_op].view, field, c),
                    "concurrent commit")
    IN  /\ pc \in {"idle", "update_op_heads"}
        /\ r.status = "ok"
        /\ op_store' = r.store
        /\ op_heads' = update_op_heads(op_heads, {base_op}, r.new_op_id)
        /\ abandon' = IF pc = "idle" THEN abandon
                      ELSE [abandon EXCEPT !.concurrent = TRUE]
        /\ UNCHANGED <<wc_op_id, pc, cmd, tx, status, commit_store, op_diff, edited>>

\* the operations a concurrent command was started at: a head or a parent of one
ConcurrentBases == op_heads \cup UNION {Parents(op_store, h) : h \in op_heads}

\* loading the repo at divergent heads merges them into one head
ResolveOpHeads ==
    /\ pc = "idle"
    /\ Cardinality(op_heads) > 1
    /\ LET m == merge_operations(op_store, SortedSeq(op_heads))
       IN  /\ op_store' = m.store
           /\ op_heads' = {m.op_id}
    /\ UNCHANGED <<wc_op_id, pc, cmd, abandon, tx, status, commit_store, op_diff, edited>>

Undo(operation, what) ==
    /\ pc = "idle"
    /\ Cardinality(op_heads) = 1
    /\ Finished("undo", operation, what, cmd_op_undo(op_store, HeadOp, operation, what))

Restore(operation, what) ==
    /\ pc = "idle"
    /\ Cardinality(op_heads) = 1
    /\ Finished("restore", operation, what, cmd_op_restore(op_store, HeadOp, operation, what))

\* jj op abandon up to the update of the Head Set
AbandonStart(at_operation, operation) ==
    /\ pc = "idle"
    /\ LET r == cmd_op_abandon(op_store, op_heads, at_operation, operation)
       IN  /\ op_store' = r.store
           /\ status' = r.status
           /\ abandon' = r.locals
           /\ pc' = IF r.status = "Abandoned" THEN "update_op_heads" ELSE "done"
    /\ cmd' = "abandon"
    /\ UNCHANGED <<op_heads, wc_op_id, tx, commit_store, op_diff, edited>>

\* the warning "The working copy operation ... is not updated because it
\* differs from the repo ..." is printed
warns_not_updated(old_op_id, current_head_op_id, ignore_working_copy) ==
    ~ignore_working_copy /\ old_op_id # current_head_op_id

\* faulty variant of remap_workspace: --ignore-working-copy is not looked at
remap_workspace_whatever_the_flag(old_op_id, current_head_op_id, new_head_id, ignore_working_copy) ==
    IF old_op_id = current_head_op_id THEN new_head_id ELSE old_op_id

\* the new id of the workspace's operation
remap_workspace(old_op_id, current_head_op_id, new_head_id, ignore_working_copy) ==
    IF ~ignore_working_copy /\ old_op_id = current_head_op_id
    THEN new_head_id
    ELSE old_op_id

\* faulty variant of AbandonUpdate: the update of the Head Set fails, and
\* changes nothing, when the loaded head is no longer a head
AbandonUpdateCompareAndSwap(ignore_working_copy) ==
    /\ pc = "update_op_heads"
    /\ op_heads' = IF abandon.current_head_op \in op_heads
                   THEN update_op_heads(op_heads, {abandon.current_head_op},
                                        abandon.new_head_ids[1])
                   ELSE op_heads
    /\ wc_op_id' = remap_workspace(wc_op_id, abandon.current_head_op,
                                   abandon.new_head_ids[1], ignore_working_copy)
    /\ abandon' = [abandon EXCEPT
                      !.ignore_working_copy = ignore_working_copy,
                      !.warning = warns_not_updated(wc_op_id, abandon.current_head_op,
                                                    ignore_working_copy)]
    /\ pc' = "done"
    /\ UNCHANGED <<op_store, cmd, tx, status, commit_store, op_diff, edited>>

\* jj op abandon from the update of the Head Set on; --ignore-working-copy is
\* read here
AbandonUpdate(ignore_working_copy) ==
    /\ pc = "update_op_heads"
    /\ op_heads' = update_op_heads(op_heads, {abandon.current_head_op},
                                   abandon.new_head_ids[1])
    /\ wc_op_id' = remap_workspace(wc_op_id, abandon.current_head_op,
                                   abandon.new_head_ids[1], ignore_working_copy)
    /\ abandon' = [abandon EXCEPT
                      !.ignore_working_copy = ignore_working_copy,
                      !.warning = warns_not_updated(wc_op_id, abandon.current_head_op,
                                                    ignore_working_copy)]
    /\ pc' = "done"
    /\ UNCHANGED <<op_store, cmd, tx, status, commit_store, op_diff, edited>>

\* the command has ended; the next one may start
Return ==
    /\ pc = "done"
    /\ pc' = "idle"
    /\ cmd' = "none"
    /\ abandon' = AbandonNone
    /\ tx' = TxNone
    /\ status' = "none"
    /\ op_diff' = DiffNone
    /\ edited' = EditNone
    /\ UNCHANGED <<op_store, op_heads, wc_op_id, commit_store>>

\* jj op diff
OpDiff(from, to, operation) ==
    /\ pc = "idle"
    /\ Cardinality(op_heads) = 1
    /\ LET r == cmd_op_diff(op_store, HeadOp, from, to, operation)
           d == IF r.status = "ok"
                THEN show_op_diff_output(commit_store, r.store[r.from_op].view,
                                         r.store[r.to_op].view)
                ELSE DiffNone
       IN  /\ op_store' = r.store
           /\ status' = IF d.panic THEN "panic: graph has cycle" ELSE r.status
           /\ op_diff' = d
           /\ tx' = [TxNone EXCEPT !.operation = r.to_op, !.base_op = r.to_op,
                                   !.from_op = r.from_op, !.new_op_id = r.to_op]
    /\ cmd' = "diff"
    /\ pc' = "done"
    /\ UNCHANGED <<op_heads, wc_op_id, abandon, commit_store, edited>>

\* faulty variant of OpShow: the merged parents are published as a head
OpShowPublishingMerge(operation) ==
    /\ pc = "idle"
    /\ LET r == cmd_op_show(op_store, op_heads, operation)
           d == IF r.status = "ok"
                THEN show_op_diff_output(commit_store, r.store[r.from_op].view,
                                         r.store[r.to_op].view)
                ELSE DiffNone
       IN  /\ op_store' = r.store
           /\ op_heads' = IF r.status = "ok" /\ r.from_op \notin DOMAIN op_store
                          THEN update_op_heads(op_heads,
                                   Range(op_store[r.to_op].parents), r.from_op)
                          ELSE op_heads
           /\ status' = IF d.panic THEN "panic: graph has cycle" ELSE r.status
           /\ op_diff' = d
           /\ tx' = [TxNone EXCEPT !.operation = r.to_op, !.base_op = r.to_op,
                                   !.from_op = r.from_op, !.new_op_id = r.to_op]
    /\ cmd' = "show"
    /\ pc' = "done"
    /\ UNCHANGED <<wc_op_id, abandon, commit_store, edited>>

\* jj op show: the operation and its diff from its parents are printed
OpShow(operation) ==
    /\ pc = "idle"
    /\ LET r == cmd_op_show(op_store, op_heads, operation)
           d == IF r.status = "ok"
                THEN show_op_diff_output(commit_store, r.store[r.from_op].view,
                                         r.store[r.to_op].view)
                ELSE DiffNone
       IN  /\ op_store' = r.store
           /\ status' = IF d.panic THEN "panic: graph has cycle" ELSE r.status
           /\ op_diff' = d
           /\ tx' = [TxNone EXCEPT !.operation = r.to_op, !.base_op = r.to_op,
                                   !.from_op = r.from_op, !.new_op_id = r.to_op]
    /\ cmd' = "show"
    /\ pc' = "done"
    /\ UNCHANGED <<op_heads, wc_op_id, abandon, commit_store, edited>>

\* a command writes a commit to the Object Store: a rewrite keeps the change
\* id of the commit it replaces, a new commit does not descend from a commit of
\* its own change
WriteCommit(change_id, parent_ids) ==
    /\ pc = "idle"
    /\ \A c \in commit_ancestors(commit_store, Range(parent_ids)) :
           commit_store[c].change_id # change_id
    /\ commit_store' = Append(commit_store,
                              [change_id |-> change_id, parent_ids |-> parent_ids,
                               description |-> << >>])
    /\ UNCHANGED <<op_store, op_heads, wc_op_id, pc, cmd, abandon, tx, status, op_diff,
                   edited>>

\* the working-copy commit of the current View
WorkingCopyCommit == Max(op_store[HeadOp].view.wc_commit_ids.added)

\* jj describe of the working-copy commit, with the text of the editor (edit) or
\* the message of -m
Describe(edit, text) ==
    /\ pc = "idle"
    /\ Cardinality(op_heads) = 1
    /\ Cardinality(op_store[HeadOp].view.wc_commit_ids.added) = 1
    /\ LET r == cmd_describe(op_store, HeadOp, commit_store, WorkingCopyCommit,
                             edit, text)
       IN  /\ tx' = [operation |-> 0, what |-> {}, base_op |-> HeadOp,
                     from_op |-> 0, new_op_id |-> r.new_op_id]
           /\ op_store' = r.store
           /\ op_heads' = IF r.status = "ok"
                          THEN update_op_heads(op_heads, {HeadOp}, r.new_op_id)
                          ELSE op_heads
           /\ wc_op_id' = IF r.status = "ok" THEN r.new_op_id ELSE wc_op_id
           /\ commit_store' = r.commits
           /\ status' = r.status
           /\ cmd' = "describe"
           /\ abandon' = AbandonNone
           /\ pc' = "done"
           /\ edited' = [EditNone EXCEPT
                             !.kind = IF edit THEN "describe" ELSE "describe -m",
                             !.text = text,
                             !.description = describe_description(edit, text)]
           /\ UNCHANGED op_diff

\* edit_description: the user leaves text in the file of the editor; nothing of
\* the repository changes
EditDescription(text) ==
    /\ pc = "idle"
    /\ pc' = "done"
    /\ cmd' = "edit_description"
    /\ status' = "ok"
    /\ edited' = [EditNone EXCEPT !.kind = "edit_description", !.text = text,
                                  !.description = cleanup_description(text)]
    /\ UNCHANGED <<op_store, op_heads, wc_op_id, abandon, tx, commit_store, op_diff>>

\* the description of the messages given with -m
JoinMessageParagraphs(paragraphs) ==
    /\ pc = "idle"
    /\ pc' = "done"
    /\ cmd' = "message"
    /\ status' = "ok"
    /\ edited' = [EditNone EXCEPT !.kind = "message", !.paragraphs = paragraphs,
                                  !.description = join_message_paragraphs(paragraphs)]
    /\ UNCHANGED <<op_store, op_heads, wc_op_id, abandon, tx, commit_store, op_diff>>

\* edit_multiple_descriptions of several commits: the user leaves message in
\* the file of the editor
EditMultipleDescriptions(message, commit_ids_map) ==
    /\ pc = "idle"
    /\ pc' = "done"
    /\ cmd' = "edit_multiple_descriptions"
    /\ status' = "ok"
    /\ edited' = [EditNone EXCEPT
                     !.kind = "edit_multiple_descriptions", !.text = message,
                     !.commit_ids_map = commit_ids_map,
                     !.parsed = parse_bulk_edit_message(message, commit_ids_map)]
    /\ UNCHANGED <<op_store, op_heads, wc_op_id, abandon, tx, commit_store, op_diff>>

\* the sets of commits none of which is an ancestor of another
VisibleHeads(commits) ==
    {heads \in SUBSET DOMAIN commits :
        \A h \in heads : h \notin commit_ancestors(commits, heads \ {h})}

\* a mutating command (new, rebase, abandon, ...) finishes a transaction whose
\* View has the visible heads head_ids; the local branch follows the newest head
CommitHeads(head_ids) ==
    /\ pc = "idle"
    /\ Cardinality(op_heads) = 1
    /\ Finished("commit", 0, {},
           finish(op_store, HeadOp,
                  [op_store[HeadOp].view EXCEPT
                       !.head_ids       = head_ids,
                       !.local_branches = IF head_ids = {} THEN Absent
                                          ELSE Normal(Max(head_ids))],
                  "commit"))

\* the argument of jj op abandon: a bare operation, or a range root..head
BareArgs(store) ==
    [range : {FALSE}, root_op_str : {EmptyOpStr}, head_op_str : OpStrs(store)]
RangeArgs(store) ==
    [range : {TRUE}, root_op_str : {EmptyOpStr} \cup DOMAIN store,
     head_op_str : {EmptyOpStr} \cup DOMAIN store]
AbandonArgs(store) == BareArgs(store) \cup RangeArgs(store)

Whats == SUBSET UndoWhatToRestore \ {{}}

\* the steps of the system, over the fields of the View the commands edit and
\* the portions they restore
CommitStep(fields) ==
    \E field \in fields, c \in 0..NumCommits : Commit(field, c)
ConcurrentCommitStep(fields) ==
    \E base_op \in ConcurrentBases, field \in fields, c \in 0..NumCommits :
        ConcurrentCommit(base_op, field, c)
UndoStep(whats) ==
    \E operation \in OpStrs(op_store), what \in whats : Undo(operation, what)
RestoreStep(whats) ==
    \E operation \in OpStrs(op_store), what \in whats : Restore(operation, what)
AbandonStartStep ==
    \E operation \in AbandonArgs(op_store) : AbandonStart("@", operation)
AbandonAtOpStep ==
    \E operation \in BareArgs(op_store) : AbandonStart("@-", operation)
OpDiffStep ==
    \/ \E from \in {EmptyOpStr} \cup DOMAIN op_store,
          to \in {EmptyOpStr} \cup DOMAIN op_store :
           (from # EmptyOpStr \/ to # EmptyOpStr) /\ OpDiff(from, to, EmptyOpStr)
    \/ \E operation \in {EmptyOpStr} \cup DOMAIN op_store :
           OpDiff(EmptyOpStr, EmptyOpStr, operation)
OpDiffOperationStep ==
    \E operation \in {EmptyOpStr} \cup DOMAIN op_store :
        OpDiff(EmptyOpStr, EmptyOpStr, operation)
OpShowStep ==
    \E operation \in {EmptyOpStr} \cup DOMAIN op_store : OpShow(operation)
AbandonUpdateStep ==
    \E ignore_working_copy \in BOOLEAN : AbandonUpdate(ignore_working_copy)
MergeEditStep ==
    \E edit \in MergeEdits : Commit(edit[1], edit[2])
ConcurrentMergeEditStep ==
    \E base_op \in ConcurrentBases, edit \in MergeEdits :
        ConcurrentCommit(base_op, edit[1], edit[2])
WriteCommitStep ==
    \E change_id \in ChangeIds, p1 \in DOMAIN commit_store, p2 \in DOMAIN commit_store :
        \/ p1 = p2 /\ WriteCommit(change_id, << >>)
        \/ p1 = p2 /\ WriteCommit(change_id, <<p1>>)
        \/ p1 # p2 /\ WriteCommit(change_id, <<p1, p2>>)
EditDescriptionStep ==
    /\ pc = "idle"
    /\ \E text \in LongTexts : EditDescription(text)
JoinMessageParagraphsStep ==
    /\ pc = "idle"
    /\ \E paragraphs \in ParagraphLists : JoinMessageParagraphs(paragraphs)
EditMultipleDescriptionsStep ==
    /\ pc = "idle"
    /\ \E message \in BulkMessages, commits \in BulkCommits :
           EditMultipleDescriptions(message, commits_map(commits))
DescribeStep ==
    \E edit \in BOOLEAN, text \in Texts : Describe(edit, text)
CommitHeadsStep ==
    \E head_ids \in VisibleHeads(commit_store) : CommitHeads(head_ids)

\* the store and the Head Set stay within the bounds of the model
Bounded(max_ops, max_heads) ==
    /\ Len(op_store') <= max_ops
    /\ Cardinality(op_heads') <= max_heads

InBounds == Bounded(MaxOps, MaxHeads)

\* the operation log under commands that move the local refs and restore whole
\* Views
Next ==
    \/ CommitStep({"local"}) /\ InBounds
    \/ ConcurrentCommitStep({"local"}) /\ InBounds
    \/ ResolveOpHeads /\ InBounds
    \/ UndoStep({DEFAULT_UNDO_WHAT}) /\ InBounds
    \/ RestoreStep({DEFAULT_UNDO_WHAT}) /\ InBounds
    \/ AbandonStartStep /\ InBounds
    \/ AbandonAtOpStep /\ InBounds
    \/ AbandonUpdateStep /\ InBounds
    \/ Return

Spec == Init /\ [][Next]_vars

\* The operation log under commands run with --at-op at any operation of the
\* store, after a first abandon: the operations root <- A <- B were written and
\* A was abandoned, which wrote the replacement of B and made it the head.
MaxOpsAtOp == 10

AtOpStore ==
    LET a == finish(<<RootOperation>>, RootOpId,
                    apply_edit(EmptyView, "local", 1), "commit")
        b == finish(a.store, a.new_op_id,
                    apply_edit(a.store[a.new_op_id].view, "local", 0), "commit")
    IN  cmd_op_abandon(b.store, {b.new_op_id}, "@",
                       [range |-> FALSE, root_op_str |-> EmptyOpStr,
                        head_op_str |-> a.new_op_id]).store

InitAtOp ==
    /\ op_store = AtOpStore
    /\ op_heads = {Len(AtOpStore)}
    /\ wc_op_id = Len(AtOpStore)
    /\ pc = "idle"
    /\ cmd = "none"
    /\ abandon = AbandonNone
    /\ tx = TxNone
    /\ status = "none"
    /\ commit_store = InitialCommits
    /\ op_diff = DiffNone
    /\ edited = EditNone

AtOpCommitStep(fields) ==
    \E base_op \in DOMAIN op_store, field \in fields, c \in 0..NumCommits :
        ConcurrentCommit(base_op, field, c)
AbandonRangeStep ==
    \E operation \in RangeArgs(op_store) :
        operation.root_op_str = EmptyOpStr /\ AbandonStart("@", operation)

InBoundsAtOp == Bounded(MaxOpsAtOp, MaxHeads)

NextAtOp ==
    \/ AtOpCommitStep({"local"}) /\ InBoundsAtOp
    \/ ResolveOpHeads /\ InBoundsAtOp
    \/ AbandonRangeStep /\ InBoundsAtOp
    \/ AbandonUpdateStep /\ InBoundsAtOp
    \/ Return

SpecAtOp == InitAtOp /\ [][NextAtOp]_vars

\* The operation log under commands that move the local refs or the
\* remote-tracking refs and restore any selection of portions.
MaxOpsViews == 5

InBoundsViews == Bounded(MaxOpsViews, MaxHeads)

NextViews ==
    \/ CommitStep(EditedFields) /\ InBoundsViews
    \/ ConcurrentCommitStep(EditedFields) /\ InBoundsViews
    \/ ResolveOpHeads /\ InBoundsViews
    \/ UndoStep(Whats) /\ InBoundsViews
    \/ RestoreStep(Whats) /\ InBoundsViews
    \/ AbandonStartStep /\ InBoundsViews
    \/ AbandonUpdateStep /\ InBoundsViews
    \/ Return

SpecViews == Init /\ [][NextViews]_vars

\* The operation log under jj op diff.
MaxOpsDiff == 6

InBoundsDiff == Bounded(MaxOpsDiff, MaxHeads)

NextDiff ==
    \/ CommitStep({"local"}) /\ InBoundsDiff
    \/ ConcurrentCommitStep({"local"}) /\ InBoundsDiff
    \/ ResolveOpHeads /\ InBoundsDiff
    \/ OpDiffStep /\ InBoundsDiff
    \/ OpShowStep /\ InBoundsDiff
    \/ Return

SpecDiff == Init /\ [][NextDiff]_vars

\* The operation log under concurrent commands that move the local branch and
\* the visible heads over the commits c1 <- c2 and c3, or fetch, and under the
\* merges of their operations.
MaxOpsMerge == 5
MaxHeadsMerge == 3
InitMerge ==
    /\ op_store = <<RootOperation>>
    /\ op_heads = {RootOpId}
    /\ wc_op_id = RootOpId
    /\ pc = "idle"
    /\ cmd = "none"
    /\ abandon = AbandonNone
    /\ tx = TxNone
    /\ status = "none"
    /\ commit_store = MergeCommits
    /\ op_diff = DiffNone
    /\ edited = EditNone

InBoundsMerge == Bounded(MaxOpsMerge, MaxHeadsMerge)

NextMerge ==
    \/ MergeEditStep /\ InBoundsMerge
    \/ ConcurrentMergeEditStep /\ InBoundsMerge
    \/ ResolveOpHeads /\ InBoundsMerge
    \/ OpDiffOperationStep /\ InBoundsMerge
    \/ Return

SpecMerge == InitMerge /\ [][NextMerge]_vars

\* The operation log and the Object Store under commands that write commits and
\* move the visible heads, and under jj op diff.
MaxOpsCommits == 3

InBoundsCommits ==
    /\ Bounded(MaxOpsCommits, MaxHeads)
    /\ Len(commit_store') <= MaxCommits

NextCommits ==
    \/ WriteCommitStep /\ InBoundsCommits
    \/ CommitHeadsStep /\ InBoundsCommits
    \/ OpDiffStep /\ InBoundsCommits
    \/ Return

SpecCommits == Init /\ [][NextCommits]_vars

\* jj describe of the working-copy commit, between commands that set the
\* working copy and restore earlier operations
MaxOpsDescribe == 3
\* commits the describe commands may write
MaxDescribed == 2

InBoundsDescribe ==
    /\ Bounded(MaxOpsDescribe, MaxHeads)
    /\ Len(commit_store') <= NumCommits + MaxDescribed

NextDescribe ==
    \/ CommitStep({"local"}) /\ InBoundsDescribe
    \/ DescribeStep /\ InBoundsDescribe
    \/ RestoreStep({DEFAULT_UNDO_WHAT}) /\ InBoundsDescribe
    \/ Return

SpecDescribe == Init /\ [][NextDescribe]_vars

\* the description utilities on the texts a user may leave in the editor or
\* give with -m
NextText ==
    \/ EditDescriptionStep
    \/ JoinMessageParagraphsStep
    \/ EditMultipleDescriptionsStep
    \/ Return

SpecText == Init /\ [][NextText]_vars

\* sanity of the model: an operation's parents were written before it
ParentsFirst ==
    \A i \in DOMAIN op_store : \A p \in Parents(op_store, i) : p < i

----------------------------------------------------------------------------
(* Properties of jj op abandon *)

Ancestors(id) == walk_ancestors(op_store, {id})

\* (..head] \ (..root]
RangeOps(root_op, head_op) == Ancestors(head_op) \ Ancestors(root_op)

\* the abandoned set of the last abandon command
AbandonedSet == RangeOps(abandon.abandon_root_op, abandon.abandon_head_op)

\* the operations of the current head's history that descend from an abandoned one
DescendantsOf(current_head_op, abandoned) ==
    {o \in Ancestors(current_head_op) \ abandoned : Ancestors(o) \cap abandoned # {}}

\* the abandon command reparented or found nothing to reparent
Reparented == cmd = "abandon" /\ status \in {"Abandoned", "Nothing changed."}

\* the abandon command ran to its end and no other process moved the heads
AbandonDone == status = "Abandoned" /\ pc = "done" /\ ~abandon.concurrent

\* the outcome of jj op abandon with the argument a in the current state
AbandonOutcome(a) == cmd_op_abandon(op_store, op_heads, "@", a)

\* the range an argument names in the current state
ArgRange(a) == resolve_abandon_range(op_store, HeadOp, a)

\* a command may start at one head
AtOneHead == pc = "idle" /\ Cardinality(op_heads) = 1

\* the replacement of a parent: new_root for an abandoned operation, the
\* replacement for a rewritten one
Replaced(p) ==
    IF p \in AbandonedSet THEN abandon.abandon_root_op
    ELSE IF p \in DOMAIN abandon.rewritten THEN abandon.rewritten[p]
    ELSE p

\* C1: after a successful abandon without a concurrent writer every new head has
\* new_root among its ancestors and no operation of the abandoned set
\* (..abandon_head] \ (..new_root].
C1_NewHeadsClean ==
    AbandonDone =>
        \A h \in Range(abandon.new_head_ids) :
            /\ h \in op_heads
            /\ abandon.abandon_root_op \in Ancestors(h)
            /\ Ancestors(h) \cap AbandonedSet = {}

\* C2: reparent_range called with one current head returns one new head id, so
\* the conversion to a one-element array never panics.
C2_OneNewHead ==
    /\ status # "panic"
    /\ Reparented => Len(abandon.new_head_ids) = 1
    /\ AtOneHead =>
          \A a \in AbandonArgs(op_store) : AbandonOutcome(a).status # "panic"

\* the state SpecAtOp starts at
AtOpInitReached ==
    /\ op_store = AtOpStore
    /\ op_heads = {Len(AtOpStore)}
    /\ wc_op_id = Len(AtOpStore)
    /\ pc = "idle"

C2_Witness ==
    /\ AbandonDone
    /\ abandon.rewritten_count >= 2
    /\ op_heads = {abandon.new_head_ids[1]}

\* the chain scenario: the abandon head is abandoned and the current head has
\* it as its one parent
ChainScenario ==
    /\ Reparented
    /\ abandon.abandon_head_op \in AbandonedSet
    /\ Parents(op_store, abandon.current_head_op) = {abandon.abandon_head_op}

ChainOutcome ==
    ChainScenario =>
        /\ abandon.rewritten_count = 1
        /\ Parents(op_store, abandon.new_head_ids[1]) = {abandon.abandon_root_op}

\* C3 as stated: the parent set of a replacement is the original parent set with
\* every abandoned parent replaced by new_root (and nothing else changed); in
\* the chain scenario the head's replacement has the parent new_root and
\* rewritten_count is 1.
C3_Original ==
    /\ Reparented =>
          \A d \in DOMAIN abandon.rewritten :
              Parents(op_store, abandon.rewritten[d]) =
                  {IF p \in AbandonedSet THEN abandon.abandon_root_op ELSE p :
                      p \in Parents(op_store, d)}
    /\ ChainOutcome

\* C3 amended: the parent set of a replacement is the original parent set with
\* every abandoned parent replaced by new_root and every rewritten parent
\* replaced by its replacement; the chain scenario as stated.
C3_ReplacementParents ==
    /\ Reparented =>
          \A d \in DOMAIN abandon.rewritten :
              Parents(op_store, abandon.rewritten[d]) =
                  {Replaced(p) : p \in Parents(op_store, d)}
    /\ ChainOutcome

C3_ChainReached ==
    /\ AbandonDone
    /\ ChainScenario
    /\ abandon.abandon_root_op # RootOpId
    /\ abandon.unreachable_count >= 2

C3_Witness ==
    /\ AbandonDone
    /\ \E d \in DOMAIN abandon.rewritten :
           Parents(op_store, d) \cap DOMAIN abandon.rewritten # {}

\* C4: unreachable_count is the number of operations reachable from the abandon
\* head but not from new_root; rewritten_count is the number of operations
\* reachable from the current head that have an unreachable ancestor and are
\* not unreachable themselves.
C4_Counts ==
    Reparented =>
        /\ abandon.unreachable_count = Cardinality(AbandonedSet)
        /\ abandon.rewritten_count =
               Cardinality(DescendantsOf(abandon.current_head_op, AbandonedSet))
        /\ DOMAIN abandon.rewritten =
               DescendantsOf(abandon.current_head_op, AbandonedSet)

C4_Witness ==
    /\ AbandonDone
    /\ abandon.abandon_root_op # RootOpId
    /\ abandon.unreachable_count = 2
    /\ abandon.rewritten_count = 1

\* C5: every replacement carries the View of the operation it replaces, so the
\* View of the new head is the View of the head before the abandon.
C5_ViewUnchanged ==
    /\ Reparented =>
          \A d \in DOMAIN abandon.rewritten :
              op_store[abandon.rewritten[d]].view = op_store[d].view
    /\ AbandonDone =>
          /\ op_heads = {abandon.new_head_ids[1]}
          /\ op_store[HeadOp].view = op_store[abandon.current_head_op].view

C5_Witness ==
    /\ AbandonDone
    /\ abandon.rewritten_count >= 1
    /\ op_store[HeadOp].view # EmptyView
    /\ op_store[HeadOp].view # op_store[abandon.abandon_head_op].view

\* the abandoned range is the set of the current head's parents
ParentsAbandoned ==
    /\ Reparented
    /\ AbandonedSet = Parents(op_store, abandon.current_head_op)
    /\ abandon.current_head_op \notin AbandonedSet

\* C6 as stated: abandoning a range equal to the current head's immediate
\* ancestors, the head outside the range, leaves new_head_ids equal to the
\* current heads and reports unreachable_count = N and rewritten_count = 0.
C6_Original ==
    ParentsAbandoned =>
        /\ abandon.new_head_ids = <<abandon.current_head_op>>
        /\ abandon.unreachable_count = Cardinality(AbandonedSet)
        /\ abandon.rewritten_count = 0

\* C6 amended: abandoning a range equal to the current head's immediate
\* ancestors, the head outside the range, rewrites the head: new_head_ids is
\* the replacement of the current head, whose one parent is new_root, and the
\* command reports unreachable_count = N and rewritten_count = 1.
C6_HeadReparented ==
    ParentsAbandoned =>
        /\ status = "Abandoned"
        /\ abandon.current_head_op \in DOMAIN abandon.rewritten
        /\ abandon.new_head_ids = <<abandon.rewritten[abandon.current_head_op]>>
        /\ abandon.new_head_ids[1] # abandon.current_head_op
        /\ Parents(op_store, abandon.new_head_ids[1]) = {abandon.abandon_root_op}
        /\ abandon.unreachable_count = Cardinality(AbandonedSet)
        /\ abandon.rewritten_count = 1

C6_Witness ==
    /\ ParentsAbandoned
    /\ pc = "done"
    /\ abandon.abandon_root_op # RootOpId
    /\ abandon.operation.range

\* the current head descends from an abandoned operation
HeadDescends ==
    abandon.current_head_op \in DescendantsOf(abandon.current_head_op, AbandonedSet)

\* C7: the new head is the replacement of the current head, or the current head
\* itself when it does not descend from an abandoned operation; in that case
\* the command reports "Nothing changed." and updates neither the Head Set nor
\* the workspace's operation id.
C7_NothingChanged ==
    /\ [](Reparented =>
            IF HeadDescends
            THEN /\ status = "Abandoned"
                 /\ abandon.new_head_ids = <<abandon.rewritten[abandon.current_head_op]>>
            ELSE /\ status = "Nothing changed."
                 /\ abandon.new_head_ids = <<abandon.current_head_op>>
                 /\ pc = "done")
    /\ [][cmd' = "abandon" /\ status' = "Nothing changed."
            => UNCHANGED <<op_store, op_heads, wc_op_id>>]_vars

C7_Witness ==
    /\ cmd = "abandon"
    /\ status = "Nothing changed."
    /\ abandon.unreachable_count >= 1
    /\ op_heads = {abandon.current_head_op}

\* C8: abandon of a bare operation id fails with "Cannot abandon the root
\* operation" when the operation has no parent and with "Cannot abandon a merge
\* operation" when it has more than one; with one parent it proceeds, with the
\* parent as the root and the operation as the head of the range.
C8_BareId ==
    /\ AtOneHead =>
          \A a \in BareArgs(op_store) :
              resolves(op_store, a.head_op_str) =>
                  LET n == Len(op_store[a.head_op_str].parents)
                      o == AbandonOutcome(a)
                  IN  /\ n = 0 => o.status = "Cannot abandon the root operation"
                      /\ n > 1 => o.status = "Cannot abandon a merge operation"
                      /\ n = 1 =>
                           /\ ArgRange(a) = [error   |-> "",
                                             root_op |-> op_store[a.head_op_str].parents[1],
                                             head_op |-> a.head_op_str]
                           /\ o.status \in {"Cannot abandon the current operation",
                                            "Nothing changed.", "Abandoned"}
    /\ (Reparented /\ ~abandon.operation.range) =>
          /\ abandon.abandon_head_op = abandon.operation.head_op_str
          /\ op_store[abandon.abandon_head_op].parents = <<abandon.abandon_root_op>>

C8_Witness ==
    /\ cmd = "abandon"
    /\ status = "Cannot abandon a merge operation"
    /\ ~abandon.operation.range

C8_WitnessProceeds ==
    /\ AbandonDone
    /\ ~abandon.operation.range
    /\ abandon.abandon_root_op # RootOpId

\* C9: abandon fails with "Cannot abandon the current operation" whenever the
\* resolved abandon head is the current head operation, also for a range with
\* an empty head part, and before any reparenting or update of the Head Set.
C9_CurrentOperation ==
    /\ [](AtOneHead =>
            \A a \in AbandonArgs(op_store) :
                (ArgRange(a).error = "" /\ ArgRange(a).head_op = HeadOp) =>
                    /\ AbandonOutcome(a).status = "Cannot abandon the current operation"
                    /\ AbandonOutcome(a).store = op_store)
    /\ [](AtOneHead =>
            \A a \in RangeArgs(op_store) :
                a.head_op_str = EmptyOpStr =>
                    AbandonOutcome(a).status = "Cannot abandon the current operation")
    /\ [][status' = "Cannot abandon the current operation"
            => /\ UNCHANGED <<op_store, op_heads, wc_op_id>>
               /\ pc' = "done"]_vars

C9_Witness ==
    /\ status = "Cannot abandon the current operation"
    /\ abandon.operation.range
    /\ abandon.operation.head_op_str = EmptyOpStr
    /\ abandon.operation.root_op_str # EmptyOpStr
    /\ Len(op_store) >= 3

\* the user errors of undo and abandon
UndoAbandonErrors ==
    {"Cannot undo repo initialization",
     "Cannot undo a merge operation",
     "Cannot abandon the root operation",
     "Cannot abandon a merge operation",
     "Cannot abandon the current operation",
     "--at-op is not respected"}

C10_WitnessAtOp ==
    /\ cmd = "abandon"
    /\ status = "--at-op is not respected"
    /\ Len(op_store) >= 3

----------------------------------------------------------------------------
(* Properties of jj op undo and jj op restore *)

\* the outcome of jj op undo in the current state
UndoOutcome(operation, what) == cmd_op_undo(op_store, HeadOp, operation, what)

\* undo or restore ran its transaction to the end
TxDone == cmd \in {"undo", "restore"} /\ status \in {"ok", "Nothing changed."}

\* the View the transaction started at and the View it ended with
BaseView == op_store[tx.base_op].view
NewView == op_store[tx.new_op_id].view

\* the one parent of the operation undone
BadOpParent == op_store[tx.operation].parents[1]

\* the View undo restores from: the change bad_op -> parent folded into the
\* current View
UndoMergedView ==
    merge_views(BaseView, op_store[tx.operation].view, op_store[BadOpParent].view)

\* the View whose portions the command restores
RestoredView ==
    IF cmd = "undo" THEN UndoMergedView ELSE op_store[tx.operation].view

RepoPortion(view) ==
    <<view.head_ids, view.local_branches, view.tags, view.wc_commit_ids>>
RemoteTrackingPortion(view) == view.remote_views
GitPortion(view) == <<view.git_refs, view.git_head>>

\* C11: undo of an operation with no parent fails with "Cannot undo repo
\* initialization", of one with several parents with "Cannot undo a merge
\* operation", both before anything is written; with one parent it runs.
C11_UndoOneParent ==
    /\ [](AtOneHead =>
            \A operation \in DOMAIN op_store, what \in Whats :
                LET n == Len(op_store[operation].parents)
                    o == UndoOutcome(operation, what)
                IN  /\ n = 0 => /\ o.status = "Cannot undo repo initialization"
                                /\ o.store = op_store
                    /\ n > 1 => /\ o.status = "Cannot undo a merge operation"
                                /\ o.store = op_store
                    /\ n = 1 => o.status \in {"ok", "Nothing changed."})
    /\ []((cmd = "undo" /\ TxDone) => Len(op_store[tx.operation].parents) = 1)
    /\ [][status' \in {"Cannot undo repo initialization",
                       "Cannot undo a merge operation"}
            => UNCHANGED <<op_store, op_heads, wc_op_id>>]_vars

C11_Witness ==
    /\ cmd = "undo"
    /\ status = "Cannot undo repo initialization"
    /\ tx.operation = RootOpId
    /\ Len(op_store) >= 3

\* C12: undo folds the change from the View at bad_op (the base) to the View at
\* its parent (the other side) into the current View; when bad_op is the
\* current head and both portions are restored, the heads, local branches,
\* tags, remote views and workspace commits of the new View are those of
\* bad_op's parent.
C12_UndoMerge ==
    (cmd = "undo" /\ TxDone) =>
        /\ NewView = [head_ids       |-> IF "Repo" \in tx.what THEN UndoMergedView.head_ids
                                         ELSE BaseView.head_ids,
                      local_branches |-> IF "Repo" \in tx.what
                                         THEN UndoMergedView.local_branches
                                         ELSE BaseView.local_branches,
                      tags           |-> IF "Repo" \in tx.what THEN UndoMergedView.tags
                                         ELSE BaseView.tags,
                      remote_views   |-> IF "RemoteTracking" \in tx.what
                                         THEN UndoMergedView.remote_views
                                         ELSE BaseView.remote_views,
                      git_refs       |-> BaseView.git_refs,
                      git_head       |-> BaseView.git_head,
                      wc_commit_ids  |-> IF "Repo" \in tx.what
                                         THEN UndoMergedView.wc_commit_ids
                                         ELSE BaseView.wc_commit_ids]
        /\ (tx.operation = tx.base_op /\ tx.what = {"Repo", "RemoteTracking"}) =>
              /\ RepoPortion(NewView) = RepoPortion(op_store[BadOpParent].view)
              /\ RemoteTrackingPortion(NewView) =
                     RemoteTrackingPortion(op_store[BadOpParent].view)

C12_Witness ==
    /\ cmd = "undo"
    /\ status = "ok"
    /\ tx.operation = tx.base_op
    /\ tx.what = {"Repo", "RemoteTracking"}
    /\ RemoteTrackingPortion(NewView) # RemoteTrackingPortion(BaseView)
    /\ RepoPortion(NewView) # RepoPortion(EmptyView)

\* the View after undo of operation with the portions what1 and then undo of
\* the operation the first undo wrote, with the portions what2
ViewAfterUndoUndo(operation, what1, what2) ==
    LET first  == cmd_op_undo(op_store, HeadOp, operation, what1)
        second == cmd_op_undo(first.store, first.new_op_id, first.new_op_id, what2)
    IN  second.store[second.new_op_id].view

\* the first undo wrote an operation
UndoWrites(operation, what) ==
    /\ Len(op_store[operation].parents) = 1
    /\ UndoOutcome(operation, what).status = "ok"

\* C13 as stated: undo(op) and then undo of the operation that undo wrote gives
\* the View that was current before the first undo, for every non-root,
\* non-merge op (and every selection of portions of the two commands).
C13_Original ==
    AtOneHead =>
        \A operation \in DOMAIN op_store, what1 \in Whats, what2 \in Whats :
            UndoWrites(operation, what1) =>
                ViewAfterUndoUndo(operation, what1, what2) = op_store[HeadOp].view

\* C13 amended: undo(op) and then undo of the operation that undo wrote gives
\* the View that was current before the first undo, for every non-root,
\* non-merge op, when the second undo restores at least the portions the first
\* one restored (as with the default selection).
C13_UndoUndo ==
    /\ AtOneHead =>
          \A operation \in DOMAIN op_store, what1 \in Whats, what2 \in Whats :
              (UndoWrites(operation, what1) /\ what1 \subseteq what2) =>
                  ViewAfterUndoUndo(operation, what1, what2) = op_store[HeadOp].view
    /\ (/\ cmd = "undo" /\ status = "ok"
        /\ tx.operation = tx.base_op
        /\ tx.what = {"Repo", "RemoteTracking"}
        /\ op_store[tx.base_op].metadata.description = "undo operation") =>
            NewView = op_store[BadOpParent].view

C13_Witness ==
    /\ cmd = "undo"
    /\ status = "ok"
    /\ tx.operation = tx.base_op
    /\ tx.what = {"Repo", "RemoteTracking"}
    /\ op_store[tx.base_op].metadata.description = "undo operation"
    /\ NewView = op_store[BadOpParent].view
    /\ NewView # BaseView
    /\ NewView # EmptyView

\* C14: in the View built by undo and restore the heads, local branches, tags
\* and workspace commits come from the restored View when the repo portion is
\* selected and from the current View otherwise; the remote views come from the
\* restored View when the remote-tracking portion is selected and from the
\* current View otherwise.
C14_Portions ==
    TxDone =>
        /\ RepoPortion(NewView) =
               RepoPortion(IF "Repo" \in tx.what THEN RestoredView ELSE BaseView)
        /\ RemoteTrackingPortion(NewView) =
               RemoteTrackingPortion(IF "RemoteTracking" \in tx.what THEN RestoredView
                                     ELSE BaseView)

C14_Witness ==
    /\ cmd = "restore"
    /\ status = "ok"
    /\ tx.what = {"Repo"}
    /\ RepoPortion(RestoredView) # RepoPortion(BaseView)
    /\ RemoteTrackingPortion(RestoredView) # RemoteTrackingPortion(BaseView)

\* C15: for every selection of portions undo and restore leave git_refs and
\* git_head of the new View equal to those of the current View.
C15_GitPassThrough ==
    TxDone => GitPortion(NewView) = GitPortion(BaseView)

C15_Witness ==
    /\ cmd = "undo"
    /\ status = "ok"
    /\ tx.what = {"Repo", "RemoteTracking"}
    /\ GitPortion(RestoredView) # GitPortion(BaseView)

\* C16: restore replaces the selected portions of the current View by those of
\* the View at target_op, without a merge, for every operation of the store;
\* with both portions selected the new View is the target View except for
\* git_refs and git_head.
C16_RestoreSnapshot ==
    /\ AtOneHead =>
          \A operation \in DOMAIN op_store, what \in Whats :
              cmd_op_restore(op_store, HeadOp, operation, what).status
                  \in {"ok", "Nothing changed."}
    /\ (cmd = "restore" /\ TxDone) =>
          /\ RepoPortion(NewView) =
                 RepoPortion(IF "Repo" \in tx.what THEN op_store[tx.operation].view
                             ELSE BaseView)
          /\ RemoteTrackingPortion(NewView) =
                 RemoteTrackingPortion(IF "RemoteTracking" \in tx.what
                                       THEN op_store[tx.operation].view ELSE BaseView)
          /\ tx.what = {"Repo", "RemoteTracking"} =>
                 NewView = [op_store[tx.operation].view EXCEPT
                               !.git_refs = BaseView.git_refs,
                               !.git_head = BaseView.git_head]
          /\ status = "ok" => op_store[tx.new_op_id].parents = <<tx.base_op>>

C16_Witness ==
    /\ cmd = "restore"
    /\ status = "ok"
    /\ tx.what = {"Repo", "RemoteTracking"}
    /\ tx.operation \notin Ancestors(tx.base_op)
    /\ tx.base_op \notin Ancestors(tx.operation)
    /\ GitPortion(op_store[tx.operation].view) # GitPortion(BaseView)

----------------------------------------------------------------------------
(* Properties of the store, of the Head Set and of transactions *)

\* the step is abandon's update of the Head Set
AbandonUpdates == pc = "update_op_heads" /\ pc' = "done"

\* the operations reachable from the Head Set
ReachableOps == walk_ancestors(op_store, op_heads)

\* C17: the operation store is append-only: no step deletes or modifies an
\* operation; undo and restore add one operation on top of the current head,
\* abandon adds the replacements and leaves the abandoned operations.
C17_AppendOnly ==
    [][/\ Len(op_store') >= Len(op_store)
       /\ \A i \in DOMAIN op_store : op_store'[i] = op_store[i]
       /\ (pc = "idle" /\ cmd' \in {"undo", "restore"} /\ status' = "ok") =>
              /\ Len(op_store') = Len(op_store) + 1
              /\ op_store'[Len(op_store')].parents = <<HeadOp>>
              /\ op_heads' = {Len(op_store')}
       /\ (pc = "idle" /\ cmd' = "abandon" /\ status' = "Abandoned") =>
              /\ Len(op_store') <= Len(op_store) + abandon'.rewritten_count
              /\ \A d \in DOMAIN abandon'.rewritten :
                     /\ d \in DOMAIN op_store
                     /\ abandon'.rewritten[d] \in DOMAIN op_store'
      ]_vars

C17_Witness ==
    /\ AbandonDone
    /\ abandon.unreachable_count >= 1
    /\ abandon.rewritten_count >= 1
    /\ AbandonedSet \subseteq DOMAIN op_store
    /\ \A d \in DOMAIN abandon.rewritten : abandon.rewritten[d] > Max(AbandonedSet)
    /\ Len(op_store) = 5

C20_UnfinishedTransaction ==
    /\ [](AtOneHead =>
            \A from_op \in DOMAIN op_store, to_op \in DOMAIN op_store :
                show_op_diff(op_store, from_op, to_op).store = op_store)
    /\ [][cmd' = "diff" =>
            /\ UNCHANGED <<op_heads, wc_op_id>>
            /\ op_store' = merge_operations(op_store,
                               IF tx'.operation = 0 \/ tx'.from_op \in DOMAIN op_store
                               THEN << >>
                               ELSE op_store[tx'.operation].parents).store
         ]_vars

C20_Witness ==
    /\ cmd = "diff"
    /\ status = "ok"
    /\ tx.from_op # tx.operation
    /\ op_store[tx.from_op].view # op_store[tx.operation].view
    /\ Len(op_store[tx.operation].parents) = 1
    /\ Len(op_store) >= 4

----------------------------------------------------------------------------
(* Properties of the Change Diff Engine *)

\* jj op diff resolved its two operations and computed their diff
DiffDone == cmd = "diff" /\ status \in {"ok", "panic: graph has cycle"}

ViewOf(op_id) == op_store[op_id].view

\* the commits visible at an operation: its heads and their ancestors
VisibleAt(op_id) == commit_ancestors(commit_store, ViewOf(op_id).head_ids)

\* the diff of two operations of the store
CommitsDiff(from_op, to_op) ==
    compute_operation_commits_diff(commit_store, ViewOf(from_op), ViewOf(to_op))

ChangeIdsOf(changes) == {changes[i].change_id : i \in DOMAIN changes}

AddedOf(changes) == UNION {Range(changes[i].added_commits) : i \in DOMAIN changes}

RemovedOf(changes) == UNION {Range(changes[i].removed_commits) : i \in DOMAIN changes}

\* C27: the added commits are exactly the commits visible at to and not at
\* from, the removed commits exactly those visible at from and not at to; every
\* commit is listed once, under its own ChangeId, each ChangeId has one entry
\* and no entry has both lists empty.
C27_CommitsDiff ==
    /\ \A from_op \in DOMAIN op_store, to_op \in DOMAIN op_store :
           LET changes == CommitsDiff(from_op, to_op)
           IN  /\ AddedOf(changes) = VisibleAt(to_op) \ VisibleAt(from_op)
               /\ RemovedOf(changes) = VisibleAt(from_op) \ VisibleAt(to_op)
               /\ \A i \in DOMAIN changes :
                      /\ \A c \in CommitsOf(changes[i]) :
                             commit_store[c].change_id = changes[i].change_id
                      /\ CommitsOf(changes[i]) # {}
                      /\ Len(changes[i].added_commits)
                             = Cardinality(Range(changes[i].added_commits))
                      /\ Len(changes[i].removed_commits)
                             = Cardinality(Range(changes[i].removed_commits))
                      /\ \A j \in DOMAIN changes :
                             changes[j].change_id = changes[i].change_id => j = i
    /\ DiffDone => op_diff.changes = CommitsDiff(tx.from_op, tx.operation)

C27_Witness ==
    /\ DiffDone
    /\ Len(op_diff.changes) = 2
    /\ \E i \in DOMAIN op_diff.changes :
           /\ op_diff.changes[i].added_commits # << >>
           /\ op_diff.changes[i].removed_commits # << >>
    /\ VisibleAt(tx.from_op) \cap VisibleAt(tx.operation) # {}

\* C28: the diff of an operation against itself has no changed commit and no
\* changed local branch, tag or remote branch.
C28_SelfDiffEmpty ==
    /\ \A op_id \in DOMAIN op_store :
           show_op_diff_output(commit_store, ViewOf(op_id), ViewOf(op_id)) = DiffNone
    /\ (DiffDone /\ tx.from_op = tx.operation) => op_diff = DiffNone

C28_Witness ==
    /\ DiffDone
    /\ tx.from_op = tx.operation
    /\ Cardinality(VisibleAt(tx.operation)) >= 2
    /\ ViewOf(tx.operation).local_branches # Absent
    /\ op_diff = DiffNone

\* the commits whose parents give the parents of a change
ParentSource(modified_change) ==
    IF modified_change.added_commits # << >>
    THEN Range(modified_change.added_commits)
    ELSE Range(modified_change.removed_commits)

\* the entry of a change
EntryOf(changes, k) == changes[CHOOSE i \in DOMAIN changes : changes[i].change_id = k]

\* C29 as stated: the parents of a change are the changes of the first-listed
\* parent of each of its added commits (of its removed commits when it has no
\* added commit) that is a commit of the diff.
C29_Original ==
    \A from_op \in DOMAIN op_store, to_op \in DOMAIN op_store :
        LET changes == CommitsDiff(from_op, to_op)
            parents == change_parents(commit_store, changes)
        IN  \A k \in ChangeIdsOf(changes) :
                Range(parents[k]) =
                    {commit_store[p].change_id :
                        p \in {commit_store[c].parent_ids[1] :
                                 c \in {d \in ParentSource(EntryOf(changes, k)) :
                                          commit_store[d].parent_ids # << >>}}
                              \cap (AddedOf(changes) \cup RemovedOf(changes))}

\* C29 amended: the parents of a change are the changes of all the parents of
\* its added commits (of its removed commits when it has no added commit) that
\* are commits of the diff; a parent outside the diff gives no parent and each
\* parent change is listed once.
C29_ParentChanges ==
    /\ \A from_op \in DOMAIN op_store, to_op \in DOMAIN op_store :
           LET changes == CommitsDiff(from_op, to_op)
               parents == change_parents(commit_store, changes)
           IN  /\ DOMAIN parents = ChangeIdsOf(changes)
               /\ \A k \in ChangeIdsOf(changes) :
                      /\ Range(parents[k]) =
                             {commit_store[p].change_id :
                                 p \in UNION {Range(commit_store[c].parent_ids) :
                                                c \in ParentSource(EntryOf(changes, k))}
                                       \cap (AddedOf(changes) \cup RemovedOf(changes))}
                      /\ Len(parents[k]) = Cardinality(Range(parents[k]))
    /\ DiffDone => op_diff.parents = change_parents(commit_store, op_diff.changes)

\* a change of the printed diff has an added merge commit whose second parent
\* is a commit of the diff and gives a parent that no first-listed parent gives,
\* and whose first parent is outside the diff
C29_Witness ==
    /\ DiffDone
    /\ \E i \in DOMAIN op_diff.changes :
           \E c \in Range(op_diff.changes[i].added_commits) :
               /\ Len(commit_store[c].parent_ids) = 2
               /\ commit_store[c].parent_ids[2] \in AddedOf(op_diff.changes)
               /\ commit_store[c].parent_ids[1]
                      \notin AddedOf(op_diff.changes) \cup RemovedOf(op_diff.changes)
               /\ commit_store[commit_store[c].parent_ids[2]].change_id
                      \in Range(op_diff.parents[op_diff.changes[i].change_id])
               /\ commit_store[commit_store[c].parent_ids[2]].change_id
                      \notin Range(get_parent_changes_first_parents(commit_store,
                                       op_diff.changes[i],
                                       commit_id_change_id_map(op_diff.changes)))

\* the position of a change in the printed diff
Position(k) == CHOOSE i \in DOMAIN op_diff.emitted : op_diff.emitted[i] = k

\* the printed changes are in reverse topological order of the derived parents
EmittedInOrder ==
    /\ Range(op_diff.emitted) = ChangeIdsOf(op_diff.changes)
    /\ Len(op_diff.emitted) = Len(op_diff.changes)
    /\ \A k \in ChangeIdsOf(op_diff.changes) :
           \A parent \in Range(op_diff.parents[k]) : Position(k) < Position(parent)

\* C30: the changes of a diff are emitted in reverse topological order of the
\* derived parent relation: each modified change appears exactly once and
\* before every change that is one of its derived parents, for every pair of
\* from and to Views.
C30_ReverseTopological == DiffDone => EmittedInOrder

\* where the derived parent relation has no cycle the order is as stated
AcyclicInOrder == (DiffDone /\ ~op_diff.panic) => EmittedInOrder

----------------------------------------------------------------------------
(* Properties of the View Merge Engine and of merge_operations *)

\* the lists of operations merge_operations is given: none, the parents of an
\* operation, the heads found at a load
MergeInputs ==
    {<< >>} \cup {op_store[i].parents : i \in DOMAIN op_store}
            \cup {SortedSeq(op_heads)}

\* one step of the merge: other_op is merged into the running View, then the
\* descendants are rebased
MergeStep(parent_ops, view, other_op) ==
    rebase_descendants(merge_operation(op_store, parent_ops, view, other_op))

\* the View of the first n operations merged pairwise, in the given order
RECURSIVE MergedPrefix(_, _)
MergedPrefix(operations, n) ==
    IF n = 1 THEN ViewOf(operations[1])
    ELSE MergeStep(SubSeq(operations, 1, n - 1), MergedPrefix(operations, n - 1),
                   operations[n])

MergedInOrder(operations) == MergedPrefix(operations, Len(operations))

\* C22: merge_operations returns None exactly for no operation, the operation
\* itself, writing nothing, for one, and for more a new operation whose View
\* starts from the first operation and has each later operation merged in, in
\* the given order, each merge followed by the rebase of the descendants.
C22_MergeOperations ==
    /\ \A operations \in MergeInputs :
           LET m == merge_operations(op_store, operations)
           IN  /\ m.none <=> Len(operations) = 0
               /\ \A i \in DOMAIN op_store : m.store[i] = op_store[i]
               /\ Len(operations) = 0 => m.store = op_store
               /\ Len(operations) = 1 =>
                      m.op_id = operations[1] /\ m.store = op_store
               /\ Len(operations) > 1 =>
                      /\ m.store[m.op_id].parents = operations
                      /\ m.store[m.op_id].view = MergedInOrder(operations)
                      /\ Len(m.store) <= Len(op_store) + 1
    /\ (cmd = "diff" /\ tx.from_op = 0 /\ tx.operation # 0) =>
           /\ status = "Cannot diff operation with no parents"
           /\ op_store[tx.operation].parents = << >>
    /\ (cmd = "diff" /\ tx.from_op # 0) =>
           /\ Len(op_store[tx.operation].parents) = 1 =>
                  tx.from_op = op_store[tx.operation].parents[1]
           /\ Len(op_store[tx.operation].parents) > 1 =>
                  /\ op_store[tx.from_op].parents = op_store[tx.operation].parents
                  /\ ViewOf(tx.from_op) = MergedInOrder(op_store[tx.operation].parents)

\* jj op diff has merged the two parents of a merge operation into an
\* operation that is not published, and the rebase after the merge superseded a
\* head
C22_Witness ==
    /\ cmd = "diff"
    /\ status = "ok"
    /\ Len(op_store[tx.operation].parents) = 2
    /\ op_store[tx.from_op].parents = op_store[tx.operation].parents
    /\ tx.from_op \notin walk_ancestors(op_store, op_heads)
    /\ ViewOf(tx.from_op).head_ids
           # merge_each_without_rebase(op_store, <<op_store[tx.operation].parents[1]>>,
                 ViewOf(op_store[tx.operation].parents[1]),
                 Tail(op_store[tx.operation].parents)).head_ids

\* an operation merges three heads in their order
C22_WitnessThree ==
    \E m \in DOMAIN op_store :
        /\ Len(op_store[m].parents) = 3
        /\ ViewOf(m) = MergedInOrder(op_store[m].parents)
        /\ ViewOf(m).head_ids = {2, 3}

\* the operation m merges two operations that have the one parent a
MergesSiblings(m, a) ==
    /\ Len(op_store[m].parents) = 2
    /\ \A p \in Parents(op_store, m) : op_store[p].parents = <<a>>

IsNormal(target) == Cardinality(target.added) = 1 /\ target.removed = {}

IsConflicted(target) == Cardinality(target.added) > 1 \/ target.removed # {}

\* C23: a ref that both sides moved from the common ancestor's target to
\* different targets is conflicted, with the two new targets added and the
\* ancestor's target removed; so is branch main after the heads B (main -> c2)
\* and C (main -> c3) with the parent A (main -> c1) are merged.
C23_BothMoved ==
    /\ \A c1 \in DOMAIN commit_store, c2 \in DOMAIN commit_store,
          c3 \in DOMAIN commit_store :
           (c2 # c3 /\ c1 # c2 /\ c1 # c3) =>
               merge_ref_targets(Normal(c2), Normal(c1), Normal(c3))
                   = [added |-> {c2, c3}, removed |-> {c1}]
    /\ \A m \in DOMAIN op_store, a \in DOMAIN op_store :
           LET b == op_store[m].parents[1]
               c == op_store[m].parents[2]
           IN  (/\ MergesSiblings(m, a)
                /\ IsNormal(ViewOf(a).local_branches)
                /\ IsNormal(ViewOf(b).local_branches)
                /\ IsNormal(ViewOf(c).local_branches)
                /\ ViewOf(b).local_branches # ViewOf(a).local_branches
                /\ ViewOf(c).local_branches # ViewOf(a).local_branches
                /\ ViewOf(b).local_branches # ViewOf(c).local_branches) =>
                   ViewOf(m).local_branches =
                       [added   |-> ViewOf(b).local_branches.added
                                        \cup ViewOf(c).local_branches.added,
                        removed |-> ViewOf(a).local_branches.added]

\* the scenario root <- A (main -> c1) <- B (main -> c2), C (main -> c3), and
\* the merge of the heads {B, C}
C23_Witness ==
    \E m \in DOMAIN op_store, a \in DOMAIN op_store :
        /\ MergesSiblings(m, a)
        /\ op_store[a].parents = <<RootOpId>>
        /\ ViewOf(a).local_branches = Normal(1)
        /\ {ViewOf(p).local_branches : p \in Parents(op_store, m)}
               = {Normal(2), Normal(3)}
        /\ ViewOf(m).local_branches = [added |-> {2, 3}, removed |-> {1}]
        /\ op_heads = {m}

\* the targets of the local branches and tags of the Views of the store
RefTargetsInStore ==
    UNION {{ViewOf(i).local_branches, ViewOf(i).tags, ViewOf(i).remote_views} :
              i \in DOMAIN op_store}

\* C24: when only one side moved a ref away from the common ancestor's target,
\* the merged ref has that side's value, and the merge adds no conflict (the
\* result is conflicted only if that side's value is), also when the other side
\* and the ancestor have the ref absent.
C24_OneSideMoved ==
    /\ \A moved \in RefTargetsInStore, base \in RefTargetsInStore :
           /\ merge_ref_targets(moved, base, base) = moved
           /\ merge_ref_targets(base, base, moved) = moved
           /\ ~IsConflicted(moved) =>
                  ~IsConflicted(merge_ref_targets(moved, base, base))
    /\ \A m \in DOMAIN op_store, a \in DOMAIN op_store :
           \A p \in Parents(op_store, m), q \in Parents(op_store, m) :
               (/\ MergesSiblings(m, a)
                /\ p # q
                /\ ViewOf(q).local_branches = ViewOf(a).local_branches
                /\ ViewOf(q).tags = ViewOf(a).tags) =>
                   /\ ViewOf(m).local_branches = ViewOf(p).local_branches
                   /\ ViewOf(m).tags = ViewOf(p).tags

\* one side set the branch, the other side and the ancestor have it absent
C24_Witness ==
    \E m \in DOMAIN op_store, a \in DOMAIN op_store :
        \E p \in Parents(op_store, m), q \in Parents(op_store, m) :
            /\ MergesSiblings(m, a)
            /\ p # q
            /\ ViewOf(a).local_branches = Absent
            /\ ViewOf(q).local_branches = Absent
            /\ ViewOf(q).remote_views # Absent
            /\ IsNormal(ViewOf(p).local_branches)
            /\ ViewOf(m).local_branches = ViewOf(p).local_branches
            /\ ViewOf(m).remote_views = ViewOf(q).remote_views

\* C25: merging a View with itself returns that View unchanged, whatever the
\* common ancestor is.
C25_SelfMerge ==
    /\ \A v \in DOMAIN op_store, base \in DOMAIN op_store :
           merge_views(ViewOf(v), ViewOf(base), ViewOf(v)) = ViewOf(v)
    /\ \A m \in DOMAIN op_store :
           (/\ Len(op_store[m].parents) = 2
            /\ ViewOf(op_store[m].parents[1]) = ViewOf(op_store[m].parents[2])) =>
               ViewOf(m) = ViewOf(op_store[m].parents[1])

\* two operations with the same View, which differs from their ancestor's, were
\* merged
C25_Witness ==
    \E m \in DOMAIN op_store :
        /\ Len(op_store[m].parents) = 2
        /\ op_store[m].parents[1] # op_store[m].parents[2]
        /\ ViewOf(op_store[m].parents[1]) = ViewOf(op_store[m].parents[2])
        /\ ViewOf(m) = ViewOf(op_store[m].parents[1])
        /\ ViewOf(m) # EmptyView
        /\ IsNormal(ViewOf(m).local_branches)

\* no commit of one target is an ancestor of a commit of the other
Unrelated(left, right) ==
    \A x \in left.added, y \in right.added :
        x # y => /\ x \notin commit_ancestors(commit_store, {y})
                 /\ y \notin commit_ancestors(commit_store, {x})

\* C26: for refs merged against a shared common ancestor, with no ancestry
\* between the targets the two sides moved to, the merge is commutative.
C26_Commutative ==
    \A left \in RefTargetsInStore, base \in RefTargetsInStore,
       right \in RefTargetsInStore :
        Unrelated(left, right) =>
            merge_ref_targets(left, base, right) = merge_ref_targets(right, base, left)

\* both sides moved the branch, to unrelated commits, and the merge is in the
\* store
C26_Witness ==
    \E m \in DOMAIN op_store, a \in DOMAIN op_store :
        LET b == op_store[m].parents[1]
            c == op_store[m].parents[2]
        IN  /\ MergesSiblings(m, a)
            /\ IsNormal(ViewOf(b).local_branches)
            /\ IsNormal(ViewOf(c).local_branches)
            /\ ViewOf(b).local_branches # ViewOf(c).local_branches
            /\ ViewOf(b).local_branches # ViewOf(a).local_branches
            /\ ViewOf(c).local_branches # ViewOf(a).local_branches
            /\ Unrelated(ViewOf(b).local_branches, ViewOf(c).local_branches)
            /\ IsConflicted(ViewOf(m).local_branches)
            /\ ViewOf(m).local_branches
                   = merge_ref_targets(ViewOf(c).local_branches,
                                       ViewOf(a).local_branches,
                                       ViewOf(b).local_branches)

----------------------------------------------------------------------------
(* Properties of transactions that change nothing, and of jj describe *)

\* the text with every line feed written as carriage return, line feed
RECURSIVE WithCRLF(_)
WithCRLF(text) ==
    IF text = << >> THEN << >>
    ELSE (IF text[1] = "LF" THEN <<"CR", "LF">> ELSE <<text[1]>>)
             \o WithCRLF(Tail(text))

\* the outcome r of a command wrote nothing and reports so
ChangedNothing(r) ==
    /\ r.status = "Nothing changed."
    /\ r.store = op_store
    /\ r.new_op_id = HeadOp

\* jj describe of the working-copy commit is possible
CanDescribe ==
    AtOneHead /\ Cardinality(op_store[HeadOp].view.wc_commit_ids.added) = 1

CurrentDescription == commit_store[WorkingCopyCommit].description

DescribeOutcome(edit, text) ==
    cmd_describe(op_store, HeadOp, commit_store, WorkingCopyCommit, edit, text)

\* C21: a transaction that finishes with the View of its base operation writes
\* no operation, reports "Nothing changed." and leaves the Head Set and the
\* workspace's operation id alone. jj describe is such a transaction when the
\* description it takes is the one the commit has: the same message with or
\* without its trailing newline, the text of the editor with CR LF line endings,
\* and any text of the editor that cleanup_description turns into the current
\* description; no commit is written either.
C21_NoNetChange ==
    /\ [][(pc = "idle" /\ cmd' \in {"commit", "restore", "describe"}
                /\ status' = "Nothing changed.")
            => UNCHANGED <<op_store, op_heads, wc_op_id, commit_store>>]_vars
    /\ [](AtOneHead =>
            \A operation \in DOMAIN op_store, what \in Whats :
                view_with_desired_portions_restored(
                    op_store[operation].view, op_store[HeadOp].view, what)
                        = op_store[HeadOp].view
                    => ChangedNothing(cmd_op_restore(op_store, HeadOp, operation, what)))
    /\ [](CanDescribe =>
            /\ \A text \in Texts :
                  /\ cleanup_description(text) = CurrentDescription
                        => /\ ChangedNothing(DescribeOutcome(TRUE, text))
                           /\ DescribeOutcome(TRUE, text).commits = commit_store
                  /\ complete_newline(text) = CurrentDescription
                        => /\ ChangedNothing(DescribeOutcome(FALSE, text))
                           /\ ChangedNothing(DescribeOutcome(FALSE, complete_newline(text)))
                           /\ DescribeOutcome(FALSE, text).commits = commit_store
            /\ cleanup_description(CurrentDescription) = CurrentDescription
                  => /\ ChangedNothing(DescribeOutcome(TRUE, WithCRLF(CurrentDescription)))
                     /\ ChangedNothing(DescribeOutcome(TRUE, CurrentDescription))
                     /\ ChangedNothing(DescribeOutcome(TRUE,
                            strip_suffix(CurrentDescription, "LF"))))

\* a describe of a described commit changed nothing, and the description with
\* CR LF line endings is another text that changes nothing either
C21_Witness ==
    /\ pc = "done"
    /\ cmd = "describe"
    /\ status = "Nothing changed."
    /\ op_heads = {tx.base_op}
    /\ Cardinality(op_store[tx.base_op].view.wc_commit_ids.added) = 1
    /\ CurrentDescription # << >>
    /\ cleanup_description(CurrentDescription) = CurrentDescription
    /\ WithCRLF(CurrentDescription) # CurrentDescription
    /\ cleanup_description(WithCRLF(CurrentDescription)) = CurrentDescription
    /\ Len(commit_store) > NumCommits

----------------------------------------------------------------------------
(* Properties of the description utilities *)

\* the pieces of a text between its line feeds; a text that ends with a line
\* feed has an empty last piece
RECURSIVE Pieces(_)
Pieces(text) ==
    IF \A i \in DOMAIN text : text[i] # "LF" THEN <<text>>
    ELSE LET i == Min({j \in DOMAIN text : text[j] = "LF"})
         IN  <<SubSeq(text, 1, i - 1)>> \o Pieces(SubSeq(text, i + 1, Len(text)))

\* the lines of a text whose line endings are LF or CR LF: the pieces before a
\* line feed without the carriage return at their end, and the last piece when
\* it is not empty
LinesOf(text) ==
    LET pieces == Pieces(text)
        n      == Len(pieces)
        ended  == [i \in 1..(n - 1) |->
                      IF pieces[i] # << >> /\ pieces[i][Len(pieces[i])] = "CR"
                      THEN SubSeq(pieces[i], 1, Len(pieces[i]) - 1)
                      ELSE pieces[i]]
    IN  IF pieces[n] = << >> THEN ended ELSE Append(ended, pieces[n])

IsComment(line) == line # << >> /\ line[1] = "JJ: "

\* the lines without the empty lines at both ends
RECURSIVE WithoutBlankEnds(_)
WithoutBlankEnds(line_seq) ==
    IF line_seq = << >> THEN << >>
    ELSE IF Head(line_seq) = << >> THEN WithoutBlankEnds(Tail(line_seq))
    ELSE IF line_seq[Len(line_seq)] = << >>
    THEN WithoutBlankEnds(SubSeq(line_seq, 1, Len(line_seq) - 1))
    ELSE line_seq

HasNoCR(text) == \A i \in DOMAIN text : text[i] # "CR"

\* edit_description has returned
Cleaned == pc = "done" /\ edited.kind = "edit_description"

\* C31: the text cleanup_description returns holds the lines of the input that
\* do not start with "JJ: ", in their order, without the blank lines before the
\* first and after the last of them, each ended by one newline (so the text is
\* empty or ends with exactly one newline and has no comment line), and the
\* same input with CR LF line endings gives the same text.
C31_CleanupDescription ==
    Cleaned =>
        LET text      == edited.text
            result    == edited.description
            kept      == WithoutBlankEnds(SelectSeq(LinesOf(text),
                                                    LAMBDA line : ~IsComment(line)))
        IN  /\ result = terminated(kept)
            /\ \A i \in 1..(Len(Pieces(result)) - 1) : ~IsComment(Pieces(result)[i])
            /\ \/ result = << >>
               \/ /\ result[Len(result)] = "LF"
                  /\ Len(result) >= 2
                  /\ result[Len(result) - 1] # "LF"
                  /\ result[1] # "LF"
            /\ HasNoCR(text) => cleanup_description(WithCRLF(text)) = result

\* a text with a comment line, blank lines at both ends and a blank line
\* between two lines was cleaned
C31_Witness ==
    /\ Cleaned
    /\ edited.text = <<"LF", "a", "LF", "LF", "a">>
    /\ edited.description = <<"a", "LF", "LF", "a", "LF">>

\* a comment line between blank lines was removed with them
C31_WitnessComment ==
    /\ Cleaned
    /\ edited.text = <<"JJ: ", "a", "LF", "LF", "a">>
    /\ edited.description = <<"a", "LF">>

\* C40: cleanup_description returns its own output unchanged.
C40_Idempotent ==
    Cleaned => cleanup_description(edited.description) = edited.description

\* the texts that have a carriage return only right before a line feed
CRLFOnly(text) ==
    \A i \in DOMAIN text :
        text[i] = "CR" =>
            /\ i < Len(text)
            /\ text[i + 1] = "LF"
            /\ (i > 1 => text[i - 1] # "CR")

\* sanity of the model: cleanup_description is idempotent on texts whose
\* carriage returns belong to CR LF line endings
IdempotentOnCRLF ==
    (Cleaned /\ CRLFOnly(edited.text)) =>
        cleanup_description(edited.description) = edited.description

\* the paragraph with a newline at its end, unless it is empty
Completed(paragraph) ==
    IF paragraph = << >> \/ paragraph[Len(paragraph)] = "LF" THEN paragraph
    ELSE paragraph \o <<"LF">>

\* the completed paragraphs, with one newline between two neighbours
RECURSIVE CompletedAndSeparated(_)
CompletedAndSeparated(paragraphs) ==
    IF paragraphs = << >> THEN << >>
    ELSE IF Len(paragraphs) = 1 THEN Completed(paragraphs[1])
    ELSE Completed(paragraphs[1]) \o <<"LF">> \o CompletedAndSeparated(Tail(paragraphs))

\* the paragraph without the one newline that ends its last line
WithoutNewline(paragraph) ==
    IF /\ Len(paragraph) >= 2
       /\ paragraph[Len(paragraph)] = "LF"
       /\ paragraph[Len(paragraph) - 1] # "LF"
    THEN SubSeq(paragraph, 1, Len(paragraph) - 1)
    ELSE paragraph

\* join_message_paragraphs has returned
Joined == pc = "done" /\ edited.kind = "message"

\* C34: join_message_paragraphs returns the paragraphs, each non-empty one
\* completed with a newline when it lacks one, with one newline between two
\* neighbours; the paragraphs with or without the newline at their ends give
\* the same description, and an empty paragraph between two others adds one
\* newline, that is one more blank line.
C34_JoinMessageParagraphs ==
    Joined =>
        LET paragraphs == edited.paragraphs
            result     == edited.description
            n          == Len(paragraphs)
        IN  /\ result = CompletedAndSeparated(paragraphs)
            /\ join_message_paragraphs([i \in 1..n |-> Completed(paragraphs[i])])
                   = result
            /\ join_message_paragraphs([i \in 1..n |-> WithoutNewline(paragraphs[i])])
                   = result
            /\ \A i \in 2..(n - 1) :
                   paragraphs[i] = << >> =>
                       LET before == SubSeq(paragraphs, 1, i - 1)
                           after  == SubSeq(paragraphs, i + 1, n)
                       IN  /\ result = join_message_paragraphs(before)
                                           \o <<"LF", "LF">>
                                           \o join_message_paragraphs(after)
                           /\ join_message_paragraphs(before \o after)
                                  = join_message_paragraphs(before)
                                        \o <<"LF">>
                                        \o join_message_paragraphs(after)

\* two paragraphs, one with and one without its newline, and an empty
\* paragraph between them, were joined
C34_Witness ==
    /\ Joined
    /\ edited.paragraphs = <<<<"a">>, << >>, <<"a", "LF">>>>
    /\ edited.description = <<"a", "LF", "LF", "LF", "a", "LF">>

\* parse_bulk_edit_message has returned
Parsed == pc = "done" /\ edited.kind = "edit_multiple_descriptions"

IsHeader(line) == Len(line) >= 2 /\ line[1] = "JJ: " /\ line[2] = "describe "

\* the id a header line names
HeaderId(line) == SubSeq(line, 3, Len(line))

\* the positions of the header lines, and of those that name the id
Headers(line_seq) == {i \in DOMAIN line_seq : IsHeader(line_seq[i])}

HeadersOf(line_seq, id) == {i \in Headers(line_seq) : HeaderId(line_seq[i]) = id}

\* the lines of the section that the header at position h opens: the lines up
\* to the next header
Section(line_seq, h) ==
    LET later == {i \in Headers(line_seq) : i > h}
        end   == IF later = {} THEN Len(line_seq) ELSE Min(later) - 1
    IN  SubSeq(line_seq, h + 1, end)

\* the description a section gives
SectionDescription(section) ==
    terminated(WithoutBlankEnds(SelectSeq(section, LAMBDA line : ~IsComment(line))))

\* the ids of the headers at the given positions, from position i on, in their
\* order
RECURSIVE HeaderIdsFrom(_, _, _)
HeaderIdsFrom(line_seq, i, positions) ==
    IF i > Len(line_seq) THEN << >>
    ELSE (IF i \in positions THEN <<HeaderId(line_seq[i])>> ELSE << >>)
             \o HeaderIdsFrom(line_seq, i + 1, positions)

\* C32: the sections of the edited message are the lines after each header, up
\* to the next header; the lines before the first header are in no section.
\* In the order of the headers, an id that is not among the commits being edited
\* goes to unexpected, an id of a commit that an earlier header named goes to
\* duplicates, and the description of a commit is the cleaned-up section of the
\* first header that names it.
C32_ParseBulkEditMessage ==
    Parsed =>
        LET line_seq == LinesOf(edited.text)
            map      == edited.commit_ids_map
            result   == edited.parsed
            unknown  == {i \in Headers(line_seq) :
                            HeaderId(line_seq[i]) \notin DOMAIN map}
            repeated == {i \in Headers(line_seq) \ unknown :
                            \E j \in HeadersOf(line_seq, HeaderId(line_seq[i])) : j < i}
        IN  /\ result.unexpected = HeaderIdsFrom(line_seq, 1, unknown)
            /\ result.duplicates = HeaderIdsFrom(line_seq, 1, repeated)
            /\ \A id \in DOMAIN map :
                   LET named == HeadersOf(line_seq, id)
                   IN  /\ map[id] \in DOMAIN result.descriptions <=> named # {}
                       /\ named # {} =>
                              result.descriptions[map[id]]
                                  = SectionDescription(Section(line_seq, Min(named)))
            /\ Headers(line_seq) # {} =>
                   result = parse_bulk_edit_message(
                                terminated(SubSeq(line_seq, Min(Headers(line_seq)),
                                                  Len(line_seq))), map)

\* a line before the first header, the section of c1, a header of c3, which is
\* not being edited, and a second header of c1
C32_Witness ==
    /\ Parsed
    /\ DOMAIN edited.commit_ids_map = {<<"c1">>, <<"c2">>}
    /\ LinesOf(edited.text)
           = <<<<"a">>, <<"JJ: ", "describe ", "c1">>, <<"a">>,
               <<"JJ: ", "describe ", "c3">>, <<"JJ: ", "describe ", "c1">>>>
    /\ edited.parsed.descriptions = (1 :> <<"a", "LF">>)
    /\ edited.parsed.unexpected = <<<<"c3">>>>
    /\ edited.parsed.duplicates = <<<<"c1">>>>

\* C33: every commit being edited is a key of descriptions or is listed in
\* missing, and not both; descriptions has no other key; a commit that no
\* header of the edited message names is listed in missing.
C33_DescribedOrMissing ==
    Parsed =>
        LET map    == edited.commit_ids_map
            result == edited.parsed
        IN  /\ \A id \in DOMAIN map :
                   /\ map[id] \in DOMAIN result.descriptions \/ id \in result.missing
                   /\ ~(map[id] \in DOMAIN result.descriptions /\ id \in result.missing)
                   /\ HeadersOf(LinesOf(edited.text), id) = {} => id \in result.missing
            /\ result.missing \subseteq DOMAIN map
            /\ DOMAIN result.descriptions \subseteq {map[id] : id \in DOMAIN map}

\* the edited message has the section of c1 and no header of c2
C33_Witness ==
    /\ Parsed
    /\ DOMAIN edited.commit_ids_map = {<<"c1">>, <<"c2">>}
    /\ HeadersOf(LinesOf(edited.text), <<"c1">>) # {}
    /\ HeadersOf(LinesOf(edited.text), <<"c2">>) = {}
    /\ DOMAIN edited.parsed.descriptions = {1}
    /\ edited.parsed.missing = {<<"c2">>}

----------------------------------------------------------------------------
(* Properties of the commands at the Head Set and at the working copy *)

\* C35 as stated: the recorded operation id becomes the new head only if it was
\* the loaded head and --ignore-working-copy is not set; whenever it differed, a
\* warning is printed and the id stays.
C35_Original ==
    [][AbandonUpdates =>
          /\ wc_op_id' # wc_op_id =>
                 wc_op_id = abandon.current_head_op /\ ~abandon'.ignore_working_copy
          /\ wc_op_id # abandon.current_head_op =>
                 abandon'.warning /\ wc_op_id' = wc_op_id
          /\ wc_op_id' \in {wc_op_id, abandon.new_head_ids[1]}
      ]_vars

\* C35 amended: after abandon has updated the Head Set, the recorded operation
\* id is the new head if it was the loaded head and --ignore-working-copy is not
\* set, and stays otherwise; the warning is printed exactly when the id differed
\* and --ignore-working-copy is not set; so the id is its old value or the new
\* head.
C35_WorkingCopyRemap ==
    [][AbandonUpdates =>
          /\ wc_op_id' = IF wc_op_id = abandon.current_head_op
                            /\ ~abandon'.ignore_working_copy
                         THEN abandon.new_head_ids[1]
                         ELSE wc_op_id
          /\ abandon'.warning <=>
                 (wc_op_id # abandon.current_head_op /\ ~abandon'.ignore_working_copy)
          /\ wc_op_id' \in {wc_op_id, abandon.new_head_ids[1]}
      ]_vars

\* abandon ran with --ignore-working-copy in a workspace whose recorded
\* operation was not the head: no warning, the id stays
C35_Witness ==
    /\ pc = "done"
    /\ status = "Abandoned"
    /\ abandon.ignore_working_copy
    /\ ~abandon.warning
    /\ wc_op_id # abandon.current_head_op
    /\ wc_op_id # abandon.new_head_ids[1]

\* abandon printed the warning and left the recorded id
C35_WitnessWarning ==
    /\ pc = "done"
    /\ status = "Abandoned"
    /\ abandon.warning
    /\ wc_op_id # abandon.new_head_ids[1]

\* the heads another process added while abandon ran: at its load the head it
\* loaded was the only one
ConcurrentHeads == op_heads \ {abandon.current_head_op}

C36_WitnessUnreachable ==
    /\ pc = "done"
    /\ status = "Abandoned"
    /\ abandon.concurrent
    /\ ConcurrentHeads \ {abandon.new_head_ids[1]} # {}
    /\ AbandonedSet \cap walk_ancestors(op_store, op_heads) = {}

\* jj op show or jj op diff printed the diff of an operation
Shown == cmd \in {"show", "diff"} /\ status \in {"ok", "panic: graph has cycle"}

C37_WitnessTwoHeads ==
    /\ cmd = "show"
    /\ status = "ok"
    /\ Cardinality(op_heads) = 2

\* the abandoned set as the last abandon command computed it
Unreachable ==
    unreachable_ops(op_store, {abandon.abandon_head_op}, abandon.abandon_root_op)

\* C38: after any sequence of undo, restore and abandon commands, successful
\* or failed, the root operation is in no abandoned set, and it is an ancestor
\* of, or equal to, every operation of the Head Set.
C38_RootKept ==
    /\ op_store[RootOpId] = RootOperation
    /\ \A h \in op_heads : RootOpId \in Ancestors(h)
    /\ Reparented =>
           /\ RootOpId \notin Unreachable
           /\ RootOpId \notin DOMAIN abandon.rewritten
    /\ AtOneHead =>
           \A operation \in AbandonArgs(op_store) :
               LET rng == resolve_abandon_range(op_store, HeadOp, operation)
               IN  /\ (~operation.range /\ operation.head_op_str = RootOpId) =>
                          rng.error = "Cannot abandon the root operation"
                   /\ rng.error = "" =>
                          RootOpId \notin unreachable_ops(op_store, {rng.head_op},
                                                          rng.root_op)

\* after an undo, abandon has removed every operation between the root and the
\* head: the new head is a child of the root
C38_Witness ==
    /\ pc = "done"
    /\ status = "Abandoned"
    /\ abandon.abandon_root_op = RootOpId
    /\ Cardinality(Unreachable) >= 2
    /\ \E h \in op_heads :
          /\ h = abandon.new_head_ids[1]
          /\ op_store[h].parents = <<RootOpId>>
          /\ op_store[h].metadata.description = "undo operation"

\* abandon of the root operation has failed
C38_WitnessFailed ==
    /\ pc = "done"
    /\ status = "Cannot abandon the root operation"
    /\ Len(op_store) >= 3

\* C39: for every pair of from and to Views, the parent relation over changes
\* derived by get_parent_changes is acyclic, also when one ChangeId has several
\* added or several removed commits, so the reverse topological order of
\* show_op_diff is always defined and the diff always completes.
C39_Acyclic ==
    /\ \A from_op \in DOMAIN op_store, to_op \in DOMAIN op_store :
           ~has_cycle(change_parents(commit_store, CommitsDiff(from_op, to_op)))
    /\ DiffDone => ~op_diff.panic /\ status = "ok"

====
